---- MODULE Spec2Model ----
(***************************************************************************)
(* Model of the local persistence layer of honcho-clawd (src/src/cache.ts): *)
(* the identity cache, the context cache and the message queue, each a      *)
(* file under ~/.honcho-clawd that short-lived hook processes read and      *)
(* write with synchronous file-system calls.                                *)
(*                                                                          *)
(* A file's text is a sequence of tokens.  JSON.stringify and JSON.parse    *)
(* are modelled by what they do on the documents the program writes:        *)
(* stringify emits "{", one token per defined field and "}", parse accepts  *)
(* exactly the texts of that shape and rebuilds the document from the       *)
(* field tokens.  A text cut short by a kill, or two texts run together,    *)
(* does not parse.                                                          *)
(***************************************************************************)
EXTENDS Integers, Sequences, FiniteSets, TLC

VARIABLES
    cacheDir,     \* CACHE_DIR exists
    idFile,       \* ID_CACHE_FILE: [exists, content]
    ctxFile,      \* CONTEXT_CACHE_FILE: [exists, content]
    queueFile,    \* MESSAGE_QUEUE_FILE: [exists, content]
    workFile,     \* CLAWD_CONTEXT_FILE: [exists, content]
    now,          \* Date.now(), in milliseconds
    config,       \* the contextRefresh section of config.json
    pc,           \* per process: where it is inside the call it runs
    buf,          \* per process: what it holds in memory (a loaded document, a read text)
    ret,          \* per process: the last value a call returned to it
    hist          \* history variables (not program state): what the calls so far were

vars == <<cacheDir, idFile, ctxFile, queueFile, workFile, now, config, pc, buf, ret, hist>>

(***************************************************************************)
(* Bounds of the model and the small sets the inputs are drawn from.        *)
(***************************************************************************)
MaxAppends == 3
MaxTorn == 1
MaxConcAppends == 2
MaxTicks == 3
MaxCount == 51
MaxConcCount == 2

Procs == {"p1", "p2"}
Cwds == {"/a", "/b"}
Contents == {"m1", "m2"}
PeerIds == {"user"}
InstanceIds == {"i1", "i2"}
DataVals == {"d1", "d2"}
WorkspaceNames == {"A", "B"}
PeerNames == {"user", "clawd"}
SessionNames == {"sess"}
Ids == {"id1", "id2"}

\* null and undefined
Null == "null"
Falsy(v) == v \in {Null, ""}

(***************************************************************************)
(* Tokens of a file's text.                                                 *)
(***************************************************************************)
Tok(t, k, sub, s, n) == [t |-> t, k |-> k, sub |-> sub, s |-> s, n |-> n]
LBrace == Tok("punct", "{", "", "", 0)
RBrace == Tok("punct", "}", "", "", 0)
NL == Tok("punct", "\n", "", "", 0)
StrField(k, v) == Tok("str", k, "", v, 0)
NumField(k, v) == Tok("num", k, "", "", v)
BoolField(k, v) == Tok("bool", k, "", IF v THEN "true" ELSE "false", 0)
ObjField(k) == Tok("obj", k, "", "", 0)
StrEntry(k, sub, v) == Tok("str", k, sub, v, 0)
NumEntry(k, sub, v) == Tok("num", k, sub, "", v)

TokValue(tok) ==
    CASE tok.t = "str" -> tok.s
      [] tok.t = "num" -> tok.n
      [] tok.t = "bool" -> (tok.s = "true")
      [] OTHER -> Null

\* JSON.parse accepts the text: one object, closed, nothing after it
WellFormed(text) ==
    /\ Len(text) >= 2
    /\ text[1] = LBrace
    /\ text[Len(text)] = RBrace
    /\ \A i \in 2..(Len(text) - 1) : text[i].t # "punct"

FieldTokens(text) == {text[i] : i \in 2..(Len(text) - 1)}

RECURSIVE SetToSeq(_)
SetToSeq(S) ==
    IF S = {} THEN <<>>
    ELSE LET x == CHOOSE y \in S : TRUE IN <<x>> \o SetToSeq(S \ {x})

Put(doc, key, val) == [k \in DOMAIN doc \cup {key} |-> IF k = key THEN val ELSE doc[k]]
Has(doc, key) == key \in DOMAIN doc
EmptyDoc == <<>>

NoFile == [exists |-> FALSE, content |-> <<>>]
WriteFile(text) == [exists |-> TRUE, content |-> text]
\* writeFileSync in two steps: open with O_TRUNC, then write at offset 0 (over
\* whatever another process has put there since the open)
Truncated == [exists |-> TRUE, content |-> <<>>]
Overlay(file, text) ==
    [exists |-> TRUE,
     content |-> text \o SubSeq(file.content, Len(text) + 1, Len(file.content))]

\* faulty variant of AppendFile: writeFileSync for appendFileSync
OverwriteFile(file, text) == [exists |-> TRUE, content |-> text]
AppendFile(file, text) == [exists |-> TRUE, content |-> file.content \o text]

(***************************************************************************)
(* Identity cache.                                                          *)
(***************************************************************************)
\* faulty variant of IdStringify: the nested mappings are not written
IdStringifyFlat(cache) ==
    <<LBrace>>
    \o (IF Has(cache, "workspace")
        THEN <<ObjField("workspace"),
               StrField("workspace.name", cache.workspace.name),
               StrField("workspace.id", cache.workspace.id)>>
        ELSE <<>>)
    \o (IF Has(cache, "claudeInstanceId")
        THEN <<StrField("claudeInstanceId", cache.claudeInstanceId)>>
        ELSE <<>>)
    \o <<RBrace>>

IdStringify(cache) ==
    <<LBrace>>
    \o (IF Has(cache, "workspace")
        THEN <<ObjField("workspace"),
               StrField("workspace.name", cache.workspace.name),
               StrField("workspace.id", cache.workspace.id)>>
        ELSE <<>>)
    \o (IF Has(cache, "peers")
        THEN <<ObjField("peers")>> \o
             [i \in 1..Cardinality(DOMAIN cache.peers) |->
                 LET name == SetToSeq(DOMAIN cache.peers)[i]
                 IN StrEntry("peers[]", name, cache.peers[name])]
        ELSE <<>>)
    \o (IF Has(cache, "sessions")
        THEN <<ObjField("sessions")>> \o
             [i \in 1..Cardinality(DOMAIN cache.sessions) |->
                 LET cwd == SetToSeq(DOMAIN cache.sessions)[i]
                 IN StrEntry("sessions[].name", cwd, cache.sessions[cwd].name)] \o
             [i \in 1..Cardinality(DOMAIN cache.sessions) |->
                 LET cwd == SetToSeq(DOMAIN cache.sessions)[i]
                 IN StrEntry("sessions[].id", cwd, cache.sessions[cwd].id)] \o
             [i \in 1..Cardinality(DOMAIN cache.sessions) |->
                 LET cwd == SetToSeq(DOMAIN cache.sessions)[i]
                 IN NumEntry("sessions[].updatedAt", cwd, cache.sessions[cwd].updatedAt)]
        ELSE <<>>)
    \o (IF Has(cache, "claudeInstanceId")
        THEN <<StrField("claudeInstanceId", cache.claudeInstanceId)>>
        ELSE <<>>)
    \o <<RBrace>>

TokOf(toks, k, sub) == CHOOSE tok \in toks : tok.k = k /\ tok.sub = sub

IdParse(text) ==
    LET toks == FieldTokens(text)
        keys == {tok.k : tok \in toks} \cap {"workspace", "peers", "sessions", "claudeInstanceId"}
        peerNames == {tok.sub : tok \in {x \in toks : x.k = "peers[]"}}
        cwds == {tok.sub : tok \in {x \in toks : x.k = "sessions[].id"}}
    IN [k \in keys |->
          CASE k = "workspace" ->
                 [name |-> TokValue(TokOf(toks, "workspace.name", "")),
                  id |-> TokValue(TokOf(toks, "workspace.id", ""))]
            [] k = "peers" ->
                 [name \in peerNames |-> TokValue(TokOf(toks, "peers[]", name))]
            [] k = "sessions" ->
                 [cwd \in cwds |->
                    [name |-> TokValue(TokOf(toks, "sessions[].name", cwd)),
                     id |-> TokValue(TokOf(toks, "sessions[].id", cwd)),
                     updatedAt |-> TokValue(TokOf(toks, "sessions[].updatedAt", cwd))]]
            [] OTHER -> TokValue(TokOf(toks, "claudeInstanceId", ""))]

loadIdCache(file) ==
    IF ~file.exists THEN EmptyDoc
    ELSE IF WellFormed(file.content) THEN IdParse(file.content)
    ELSE EmptyDoc

saveIdCache(cache) == WriteFile(IdStringify(cache))

\* faulty variant of getClaudeInstanceId: the cache is not read
getClaudeInstanceIdUnread(file) == Null

getClaudeInstanceId(file) ==
    LET cache == loadIdCache(file)
    IN IF Has(cache, "claudeInstanceId") /\ ~Falsy(cache.claudeInstanceId)
       THEN cache.claudeInstanceId ELSE Null

\* faulty variant of getCachedWorkspaceId: the name is not compared
getCachedWorkspaceIdAnyName(file, workspaceName) ==
    LET cache == loadIdCache(file)
    IN IF Has(cache, "workspace") THEN cache.workspace.id ELSE Null

getCachedWorkspaceId(file, workspaceName) ==
    LET cache == loadIdCache(file)
    IN IF Has(cache, "workspace") /\ cache.workspace.name = workspaceName
       THEN cache.workspace.id ELSE Null

\* faulty variant of getCachedPeerId: the id of whichever peer is cached
getCachedPeerIdAnyPeer(file, peerName) ==
    LET cache == loadIdCache(file)
    IN IF Has(cache, "peers") /\ DOMAIN cache.peers # {}
       THEN cache.peers[CHOOSE n \in DOMAIN cache.peers : TRUE] ELSE Null

getCachedPeerId(file, peerName) ==
    LET cache == loadIdCache(file)
    IN IF Has(cache, "peers") /\ Has(cache.peers, peerName) /\ ~Falsy(cache.peers[peerName])
       THEN cache.peers[peerName] ELSE Null

\* faulty variant of getCachedSessionId: it reads a field that no set writes
getCachedSessionIdOtherField(file, cwd) ==
    LET cache == loadIdCache(file)
    IN IF Has(cache, "session") /\ Has(cache.session, cwd)
       THEN cache.session[cwd].id ELSE Null

getCachedSessionId(file, cwd) ==
    LET cache == loadIdCache(file)
    IN IF Has(cache, "sessions") /\ Has(cache.sessions, cwd) /\ ~Falsy(cache.sessions[cwd].id)
       THEN cache.sessions[cwd].id ELSE Null

\* what each set call does to the document it loaded, before it saves it
setCachedWorkspaceId(cache, name, id) == Put(cache, "workspace", [name |-> name, id |-> id])
setCachedPeerId(cache, peerName, peerId) ==
    Put(cache, "peers", Put(IF Has(cache, "peers") THEN cache.peers ELSE EmptyDoc, peerName, peerId))
setCachedSessionId(cache, cwd, name, id, t) ==
    Put(cache, "sessions",
        Put(IF Has(cache, "sessions") THEN cache.sessions ELSE EmptyDoc,
            cwd, [name |-> name, id |-> id, updatedAt |-> t]))
setClaudeInstanceId(cache, instanceId) == Put(cache, "claudeInstanceId", instanceId)

(***************************************************************************)
(* Message queue: pure parts.                                               *)
(***************************************************************************)
\* the QueuedMessage object queueMessage builds; an undefined instanceId is no
\* field; the timestamp is kept as the number of milliseconds it is the ISO form of
NewMessage(content, peerId, cwd, timestamp, instanceId) ==
    LET base == [content |-> content, peerId |-> peerId, cwd |-> cwd,
                 timestamp |-> timestamp, uploaded |-> FALSE]
    IN IF Falsy(instanceId) THEN base ELSE Put(base, "instanceId", instanceId)

\* JSON.stringify(message)
MsgStringify(msg) ==
    <<LBrace,
      StrField("content", msg.content),
      StrField("peerId", msg.peerId),
      StrField("cwd", msg.cwd),
      NumField("timestamp", msg.timestamp),
      BoolField("uploaded", msg.uploaded)>>
    \o (IF Has(msg, "instanceId") THEN <<StrField("instanceId", msg.instanceId)>> ELSE <<>>)
    \o <<RBrace>>

\* JSON.parse(line), for a line that parses
MsgParse(line) ==
    LET toks == FieldTokens(line)
    IN [k \in {tok.k : tok \in toks} |-> TokValue(TokOf(toks, k, ""))]

\* content.split("\n")
RECURSIVE Split(_)
Split(text) ==
    IF \A i \in 1..Len(text) : text[i] # NL THEN <<text>>
    ELSE LET i == CHOOSE j \in 1..Len(text) :
                      text[j] = NL /\ \A h \in 1..(j - 1) : text[h] # NL
         IN <<SubSeq(text, 1, i - 1)>> \o Split(SubSeq(text, i + 1, Len(text)))

\* .filter((line) => line.trim())
Trimmed(line) == Len(line) > 0
NonBlankLines(text) == SelectSeq(Split(text), Trimmed)

\* remaining.join("\n") + (remaining.length ? "\n" : "")
RECURSIVE Join(_)
Join(lines) ==
    IF Len(lines) = 0 THEN <<>>
    ELSE Head(lines) \o <<NL>> \o Join(Tail(lines))

Uploaded(msg) == Has(msg, "uploaded") /\ msg.uploaded
CwdOf(msg) == IF Has(msg, "cwd") THEN msg.cwd ELSE Null

\* getQueuedMessages(forCwd): one line that does not parse throws out of the
\* map, and the catch around the whole read returns []
getQueuedMessages(file, forCwd) ==
    IF ~file.exists THEN <<>>
    ELSE LET lines == NonBlankLines(file.content)
         IN IF \E i \in 1..Len(lines) : ~WellFormed(lines[i]) THEN <<>>
            ELSE LET parsed == [i \in 1..Len(lines) |-> MsgParse(lines[i])]
                     messages == SelectSeq(parsed, LAMBDA msg : ~Uploaded(msg))
                 IN IF ~Falsy(forCwd)
                    THEN SelectSeq(messages, LAMBDA msg : CwdOf(msg) = forCwd)
                    ELSE messages

\* faulty variant of KeepLine: === for !==
KeepLineOfCwd(line, forCwd) ==
    IF WellFormed(line) THEN CwdOf(MsgParse(line)) = forCwd ELSE FALSE

\* the filter of markMessagesUploaded: a line that does not parse returns false
KeepLine(line, forCwd) ==
    IF WellFormed(line) THEN CwdOf(MsgParse(line)) # forCwd ELSE FALSE

\* the text markMessagesUploaded(forCwd) writes, from the text it read
Remaining(text, forCwd) ==
    Join(SelectSeq(NonBlankLines(text), LAMBDA line : KeepLine(line, forCwd)))

(***************************************************************************)
(* Calls, run by one process at a time (no other process acts inside a      *)
(* call).  A process that is killed between two calls loses what it held    *)
(* in memory and nothing else.                                              *)
(***************************************************************************)
NoRet == [op |-> "none", arg |-> Null, val |-> Null]
Returned(p, op, arg, val) == ret' = [ret EXCEPT ![p] = [op |-> op, arg |-> arg, val |-> val]]

NoLast == [op |-> "none", cwd |-> Null, before |-> NoFile]
Last(op, cwd) == [op |-> op, cwd |-> cwd, before |-> queueFile]

FilterSeq(seq, cwd) == SelectSeq(seq, LAMBDA msg : msg.cwd # cwd)

Idle(p) == pc[p] = "idle"

\* queueMessage(content, peerId, cwd, instanceId?)
QueueMessage(p, content, peerId, cwd, instanceId) ==
    /\ Idle(p)
    /\ hist.appends < MaxAppends
    /\ cacheDir' = TRUE
    /\ LET inst == IF ~Falsy(instanceId) THEN instanceId ELSE getClaudeInstanceId(idFile)
           message == NewMessage(content, peerId, cwd, now, inst)
       IN /\ queueFile' = AppendFile(queueFile, MsgStringify(message) \o <<NL>>)
          /\ hist' = [hist EXCEPT !.appends = @ + 1,
                                  !.expected = Append(@, message),
                                  !.last = NoLast,
                                  !.given = instanceId]
    /\ UNCHANGED <<idFile, ctxFile, now, config, workFile, pc, buf, ret>>

\* getQueuedMessages(forCwd?)
GetQueuedMessages(p, forCwd) ==
    /\ Idle(p)
    /\ cacheDir' = TRUE
    /\ Returned(p, "getQueuedMessages", forCwd, getQueuedMessages(queueFile, forCwd))
    /\ UNCHANGED <<idFile, ctxFile, queueFile, now, config, workFile, pc, buf, hist>>

\* clearMessageQueue()
ClearMessageQueue(p) ==
    /\ Idle(p)
    /\ cacheDir' = TRUE
    /\ queueFile' = WriteFile(<<>>)
    /\ hist' = [hist EXCEPT !.expected = <<>>, !.last = NoLast]
    /\ UNCHANGED <<idFile, ctxFile, now, config, workFile, pc, buf, ret>>

\* markMessagesUploaded(forCwd?)
MarkMessagesUploaded(p, forCwd) ==
    /\ Idle(p)
    /\ cacheDir' = TRUE
    /\ queueFile' = IF Falsy(forCwd) THEN WriteFile(<<>>)
                    ELSE IF ~queueFile.exists THEN queueFile
                    ELSE WriteFile(Remaining(queueFile.content, forCwd))
    /\ hist' = [hist EXCEPT !.expected = IF Falsy(forCwd) THEN <<>> ELSE FilterSeq(@, forCwd),
                            !.last = Last("markMessagesUploaded", forCwd)]
    /\ UNCHANGED <<idFile, ctxFile, now, config, workFile, pc, buf, ret>>

\* the process is killed between two calls: what it held in memory is gone
Crash(p) ==
    /\ Idle(p)
    /\ pc' = [pc EXCEPT ![p] = "dead"]
    /\ buf' = [buf EXCEPT ![p] = Null]
    /\ ret' = [ret EXCEPT ![p] = NoRet]
    /\ UNCHANGED <<cacheDir, idFile, ctxFile, queueFile, now, config, workFile, hist>>

\* the host starts the next hook process
Start(p) ==
    /\ pc[p] = "dead"
    /\ pc' = [pc EXCEPT ![p] = "idle"]
    /\ UNCHANGED <<cacheDir, idFile, ctxFile, queueFile, now, config, workFile, buf, ret, hist>>

\* the process is killed inside the appendFileSync of queueMessage, after only
\* part of the line has reached the file
KilledDuringAppend(p, content, peerId, cwd, instanceId, cut) ==
    /\ Idle(p)
    /\ hist.appends < MaxAppends
    /\ hist.torn < MaxTorn
    /\ cacheDir' = TRUE
    /\ LET inst == IF ~Falsy(instanceId) THEN instanceId ELSE getClaudeInstanceId(idFile)
           line == MsgStringify(NewMessage(content, peerId, cwd, now, inst))
       IN /\ cut \in 1..Len(line)
          /\ queueFile' = AppendFile(queueFile, SubSeq(line, 1, cut))
    /\ hist' = [hist EXCEPT !.appends = @ + 1, !.torn = @ + 1,
                            !.last = NoLast]
    /\ pc' = [pc EXCEPT ![p] = "dead"]
    /\ UNCHANGED <<idFile, ctxFile, now, config, workFile, buf, ret>>

InitFiles ==
    /\ cacheDir = FALSE
    /\ idFile = NoFile
    /\ ctxFile = NoFile
    /\ queueFile = NoFile
    /\ workFile = NoFile

InitProcs ==
    /\ pc = [p \in Procs |-> "idle"]
    /\ buf = [p \in Procs |-> Null]
    /\ ret = [p \in Procs |-> NoRet]

NoWs == [set |-> FALSE, name |-> Null, id |-> Null]
NoSet == [set |-> FALSE, data |-> Null, at |-> 0]
\* the last save: its document, and whether it replaced a document with
\* fields that its own document lacks
NoSaved == [set |-> FALSE, doc |-> <<>>, over |-> FALSE]
\* the kill of a process inside a save: the file before the save, the file the
\* save was to leave, the file the kill left
NoKill == [set |-> FALSE, old |-> NoFile, new |-> NoFile, got |-> NoFile]
\* the appendClawdWork calls so far: their descriptions in call order, whether
\* the first found no work-log, and the text the last one found
NoWork == [descs |-> <<>>, fromEmpty |-> FALSE, before |-> <<>>]
\* the remote calls of a handleSessionStart run: those issued, those that
\* failed, those that returned a value with content; and the keys the
\* identity cache held when the run started
NoCalls == [calls |-> {}, failed |-> {}, valued |-> {}, had |-> {}]
\* the last setter call that ran alone: the two cache files before it
NoFrame == [calls |-> 0, op |-> "none", key |-> Null, id |-> NoFile, ctx |-> NoFile]
\* the last markKnowledgeGraphRefreshed since the last reset: the count of
\* incrementMessageCount calls before it and after it
NoMark == [set |-> FALSE, count |-> 0, incs |-> 0]
\* hist.remote: what the get-or-create calls that were answered have made at
\* the remote collaborator, as <<workspace, kind, id>>
\* the last markMessagesUploaded call under failing file-system calls: the
\* calls that failed, whether it threw, the queue file before and after it
NoIo == [failed |-> {}, thrown |-> FALSE, before |-> NoFile, after |-> NoFile]
NoHist == [appends |-> 0, torn |-> 0, expected |-> <<>>, last |-> NoLast, given |-> Null,
           marked |-> {}, unacked |-> <<>>,
           ticks |-> 0, userSet |-> NoSet, clawdSet |-> NoSet,
           reset |-> FALSE, refreshed |-> FALSE, incs |-> 0,
           ws |-> NoWs, idBefore |-> NoFile,
           idSaved |-> NoSaved, ctxSaved |-> NoSaved,
           opened |-> NoFile, kill |-> NoKill, idSets |-> 0, written |-> {},
           work |-> NoWork,
           hook |-> [p \in Procs |-> NoCalls], started |-> {}, mark |-> NoMark,
           batch |-> [c |-> 0, n |-> 0, returned |-> {}],
           stored |-> [op |-> "none", count |-> 0, before |-> 0],
           frame |-> NoFrame, io |-> NoIo, remote |-> {}]

Init ==
    /\ InitFiles
    /\ InitProcs
    /\ now = 0
    /\ config = EmptyDoc
    /\ hist = NoHist

QueueCall(p) ==
    \/ \E content \in Contents, peerId \in PeerIds, cwd \in Cwds, instanceId \in {Null} :
          QueueMessage(p, content, peerId, cwd, instanceId)
    \/ ClearMessageQueue(p)
    \/ \E forCwd \in Cwds \cup {Null} : MarkMessagesUploaded(p, forCwd)
    \/ Crash(p)
    \/ Start(p)

Next == \E p \in Procs : QueueCall(p)

Spec == Init /\ [][Next]_vars

(***************************************************************************)
(* The same calls, with a kill inside an append.                            *)
(***************************************************************************)
TornCuts == 1..8

NextTorn ==
    \E p \in Procs :
        \/ QueueCall(p)
        \/ \E content \in Contents, peerId \in PeerIds, cwd \in Cwds, cut \in TornCuts :
              KilledDuringAppend(p, content, peerId, cwd, Null, cut)

SpecTorn == Init /\ [][NextTorn]_vars

(***************************************************************************)
(* The queue calls when calls of the file system fail.  Which of mkdirSync, *)
(* readFileSync and writeFileSync would fail is an input of the call; a     *)
(* writeFileSync that fails leaves the file as it was.  The result of a     *)
(* call is the directory, the file, whether it threw and which of the       *)
(* calls it made failed.                                                    *)
(***************************************************************************)
IoCalls == {"mkdirSync", "readFileSync", "writeFileSync"}

\* ensureCacheDir(): mkdirSync is not inside a try
ensureCacheDir(dir, fails) ==
    IF dir THEN [dir |-> TRUE, thrown |-> FALSE, failed |-> {}]
    ELSE IF "mkdirSync" \in fails
         THEN [dir |-> FALSE, thrown |-> TRUE, failed |-> {"mkdirSync"}]
         ELSE [dir |-> TRUE, thrown |-> FALSE, failed |-> {}]

\* clearMessageQueue(): neither call is inside a try
clearMessageQueue(dir, file, fails) ==
    LET made == ensureCacheDir(dir, fails)
    IN IF made.thrown THEN [dir |-> made.dir, file |-> file, thrown |-> TRUE, failed |-> made.failed]
       ELSE IF "writeFileSync" \in fails
            THEN [dir |-> made.dir, file |-> file, thrown |-> TRUE, failed |-> {"writeFileSync"}]
            ELSE [dir |-> made.dir, file |-> WriteFile(<<>>), thrown |-> FALSE, failed |-> {}]

\* markMessagesUploaded(forCwd?): clearMessageQueue without a cwd; with one,
\* ensureCacheDir is before the try, the read and the write are inside it, and
\* a line that does not parse is filtered out
markMessagesUploaded(dir, file, forCwd, fails) ==
    LET made == ensureCacheDir(dir, fails)
        lines == NonBlankLines(file.content)
        parse == IF \E i \in 1..Len(lines) : ~WellFormed(lines[i]) THEN {"JSON.parse"} ELSE {}
    IN IF Falsy(forCwd) THEN clearMessageQueue(dir, file, fails)
       ELSE IF made.thrown
       THEN [dir |-> made.dir, file |-> file, thrown |-> TRUE, failed |-> made.failed]
       ELSE IF ~file.exists
       THEN [dir |-> made.dir, file |-> file, thrown |-> FALSE, failed |-> {}]
       ELSE IF "readFileSync" \in fails
       THEN [dir |-> made.dir, file |-> file, thrown |-> FALSE, failed |-> {"readFileSync"}]
       ELSE IF "writeFileSync" \in fails
       THEN [dir |-> made.dir, file |-> file, thrown |-> FALSE,
             failed |-> parse \cup {"writeFileSync"}]
       ELSE [dir |-> made.dir, file |-> WriteFile(Remaining(file.content, forCwd)),
             thrown |-> FALSE, failed |-> parse]

\* markMessagesUploaded(forCwd?) under the failures `fails`
MarkMessagesUploadedIo(p, forCwd, fails) ==
    /\ Idle(p)
    /\ LET done == markMessagesUploaded(cacheDir, queueFile, forCwd, fails)
       IN /\ cacheDir' = done.dir
          /\ queueFile' = done.file
          /\ Returned(p, "markMessagesUploaded", forCwd,
                      IF done.thrown THEN "thrown" ELSE "returned")
          /\ hist' = [hist EXCEPT !.io = [failed |-> done.failed, thrown |-> done.thrown,
                                          before |-> queueFile, after |-> done.file]]
    /\ UNCHANGED <<idFile, ctxFile, now, config, workFile, pc, buf>>

NextIo ==
    \E p \in {"p1"} :
        \/ \E cwd \in Cwds : QueueMessage(p, "m1", "user", cwd, Null)
        \/ \E cwd \in Cwds : KilledDuringAppend(p, "m1", "user", cwd, Null, 3)
        \/ Start(p)
        \/ \E forCwd \in Cwds \cup {Null}, fails \in SUBSET IoCalls :
              MarkMessagesUploadedIo(p, forCwd, fails)

SpecIo == Init /\ [][NextIo]_vars

(***************************************************************************)
(* Two hook processes at once.  A call is as many steps as it makes         *)
(* file-system calls that the other process can come between:               *)
(* markMessagesUploaded(forCwd) reads the file, then writes it.             *)
(***************************************************************************)
InSeq(seq, x) == \E i \in 1..Len(seq) : seq[i] = x

\* the messages of the lines that parse, in file order
ValidMessages(file) ==
    LET lines == SelectSeq(NonBlankLines(file.content), WellFormed)
    IN [i \in 1..Len(lines) |-> MsgParse(lines[i])]

\* markMessagesUploaded(forCwd), up to and including its readFileSync
MarkRead(p, forCwd) ==
    /\ Idle(p)
    /\ ~Falsy(forCwd)
    /\ cacheDir' = TRUE
    /\ IF ~queueFile.exists
       THEN UNCHANGED <<pc, buf>>
       ELSE /\ pc' = [pc EXCEPT ![p] = "mark-write"]
            /\ buf' = [buf EXCEPT ![p] = [forCwd |-> forCwd, content |-> queueFile.content]]
    /\ hist' = [hist EXCEPT !.marked = @ \cup {forCwd}]
    /\ UNCHANGED <<idFile, ctxFile, queueFile, now, config, workFile, ret>>

\* markMessagesUploaded(forCwd): its writeFileSync
MarkWrite(p) ==
    /\ pc[p] = "mark-write"
    /\ queueFile' = WriteFile(Remaining(buf[p].content, buf[p].forCwd))
    /\ pc' = [pc EXCEPT ![p] = "idle"]
    /\ buf' = [buf EXCEPT ![p] = Null]
    /\ LET before == ValidMessages(queueFile)
           after == ValidMessages(queueFile')
           removed == SelectSeq(before, LAMBDA msg : ~InSeq(after, msg))
           acknowledging == ret[p].op = "getQueuedMessages" /\ ret[p].arg = buf[p].forCwd
       IN hist' = [hist EXCEPT
                     !.expected = FilterSeq(@, buf[p].forCwd),
                     !.unacked = IF acknowledging
                                 THEN SelectSeq(removed, LAMBDA msg : ~InSeq(ret[p].val, msg))
                                 ELSE <<>>]
    /\ ret' = [ret EXCEPT ![p] = NoRet]
    /\ UNCHANGED <<cacheDir, idFile, ctxFile, now, config, workFile>>

NextConc ==
    \E p \in Procs :
        \/ \E content \in Contents, peerId \in PeerIds, cwd \in Cwds :
              hist.appends < MaxConcAppends /\ QueueMessage(p, content, peerId, cwd, Null)
        \/ \E forCwd \in Cwds : GetQueuedMessages(p, forCwd)
        \/ \E forCwd \in Cwds : MarkRead(p, forCwd)
        \/ MarkWrite(p)

SpecConc == Init /\ [][NextConc]_vars

(***************************************************************************)
(* Context cache: pure parts.                                               *)
(***************************************************************************)
DefaultTtlSeconds == 300
DefaultMessageThreshold == 50

SectionTokens(cache, key) ==
    IF Has(cache, key)
    THEN <<ObjField(key),
           StrEntry("data", key, cache[key].data),
           NumEntry("fetchedAt", key, cache[key].fetchedAt)>>
    ELSE <<>>

\* JSON.stringify(cache, null, 2)
CtxStringify(cache) ==
    <<LBrace>>
    \o SectionTokens(cache, "userContext")
    \o SectionTokens(cache, "clawdContext")
    \o SectionTokens(cache, "summaries")
    \o (IF Has(cache, "messageCount")
        THEN <<NumField("messageCount", cache.messageCount)>> ELSE <<>>)
    \o (IF Has(cache, "lastRefreshMessageCount")
        THEN <<NumField("lastRefreshMessageCount", cache.lastRefreshMessageCount)>> ELSE <<>>)
    \o <<RBrace>>

\* JSON.parse(text), for a text that parses
CtxParse(text) ==
    LET toks == FieldTokens(text)
        keys == {tok.k : tok \in toks}
                  \cap {"userContext", "clawdContext", "summaries",
                        "messageCount", "lastRefreshMessageCount"}
    IN [k \in keys |->
          IF k \in {"messageCount", "lastRefreshMessageCount"}
          THEN TokValue(TokOf(toks, k, ""))
          ELSE [data |-> TokValue(TokOf(toks, "data", k)),
                fetchedAt |-> TokValue(TokOf(toks, "fetchedAt", k))]]

\* (config.ttlSeconds ?? 300) * 1000
getContextTTL(cfg) ==
    (IF Has(cfg, "ttlSeconds") THEN cfg.ttlSeconds ELSE DefaultTtlSeconds) * 1000

\* config.messageThreshold ?? 50
getMessageRefreshThreshold(cfg) ==
    IF Has(cfg, "messageThreshold") THEN cfg.messageThreshold ELSE DefaultMessageThreshold

\* faulty variant of loadContextCache: no catch around JSON.parse, the
\* SyntaxError reaches the caller
loadContextCacheNoCatch(file) ==
    IF ~file.exists THEN EmptyDoc
    ELSE IF WellFormed(file.content) THEN CtxParse(file.content)
    ELSE [error |-> "SyntaxError"]

loadContextCache(file) ==
    IF ~file.exists THEN EmptyDoc
    ELSE IF WellFormed(file.content) THEN CtxParse(file.content)
    ELSE EmptyDoc

saveContextCache(cache) == WriteFile(CtxStringify(cache))

\* faulty variant of Fresh: <= for <
FreshInclusive(section, t, cfg) == t - section.fetchedAt <= getContextTTL(cfg)

\* the hit test of getCachedUserContext and getCachedClawdContext
Fresh(section, t, cfg) == t - section.fetchedAt < getContextTTL(cfg)

getCachedUserContext(file, t, cfg) ==
    LET cache == loadContextCache(file)
    IN IF Has(cache, "userContext") /\ Fresh(cache.userContext, t, cfg)
       THEN cache.userContext.data ELSE Null

getCachedClawdContext(file, t, cfg) ==
    LET cache == loadContextCache(file)
    IN IF Has(cache, "clawdContext") /\ Fresh(cache.clawdContext, t, cfg)
       THEN cache.clawdContext.data ELSE Null

\* faulty variant of isContextCacheStale: > for >=
isContextCacheStaleLater(file, t, cfg) ==
    LET cache == loadContextCache(file)
    IN IF ~Has(cache, "userContext") THEN TRUE
       ELSE t - cache.userContext.fetchedAt > getContextTTL(cfg)

isContextCacheStale(file, t, cfg) ==
    LET cache == loadContextCache(file)
    IN IF ~Has(cache, "userContext") THEN TRUE
       ELSE t - cache.userContext.fetchedAt >= getContextTTL(cfg)

\* cache.messageCount || 0, cache.lastRefreshMessageCount || 0
MessageCount(cache) == IF Has(cache, "messageCount") THEN cache.messageCount ELSE 0
LastRefreshMessageCount(cache) ==
    IF Has(cache, "lastRefreshMessageCount") THEN cache.lastRefreshMessageCount ELSE 0

\* faulty variant of shouldRefreshKnowledgeGraph: > for >=
shouldRefreshAboveThreshold(file, cfg) ==
    LET cache == loadContextCache(file)
    IN MessageCount(cache) - LastRefreshMessageCount(cache) > getMessageRefreshThreshold(cfg)

shouldRefreshKnowledgeGraph(file, cfg) ==
    LET cache == loadContextCache(file)
    IN MessageCount(cache) - LastRefreshMessageCount(cache) >= getMessageRefreshThreshold(cfg)

\* what each call does to the document it loaded, before it saves it
\* faulty variant of setCachedUserContext: a new document with the section
setCachedUserContextAlone(cache, data, t) == [userContext |-> [data |-> data, fetchedAt |-> t]]
setCachedUserContext(cache, data, t) == Put(cache, "userContext", [data |-> data, fetchedAt |-> t])
setCachedClawdContext(cache, data, t) == Put(cache, "clawdContext", [data |-> data, fetchedAt |-> t])
incrementMessageCount(cache) == Put(cache, "messageCount", MessageCount(cache) + 1)
\* faulty variant of markKnowledgeGraphRefreshed: the count is not read
markRefreshedAtZero(cache) == Put(cache, "lastRefreshMessageCount", 0)
markKnowledgeGraphRefreshed(cache) == Put(cache, "lastRefreshMessageCount", MessageCount(cache))
\* faulty variant of resetMessageCount: lastRefreshMessageCount left as it is
resetOnlyMessageCount(cache) == Put(cache, "messageCount", 0)
resetMessageCount(cache) == Put(Put(cache, "messageCount", 0), "lastRefreshMessageCount", 0)

(***************************************************************************)
(* Context cache: calls, run one at a time.  Every call loads the whole     *)
(* document and every changing call saves the whole document.               *)
(***************************************************************************)
\* the value the last call returned; a later call or the passing of time
\* makes it a thing of the past
ReturnedLast(p, op, arg, val) ==
    ret' = [q \in Procs |-> IF q = p THEN [op |-> op, arg |-> arg, val |-> val] ELSE NoRet]
ReturnedNothing == ret' = [q \in Procs |-> NoRet]

CtxSaved(cache) ==
    /\ cacheDir' = TRUE
    /\ ctxFile' = saveContextCache(cache)
    /\ UNCHANGED <<idFile, queueFile, now, config, workFile, pc, buf>>

CtxRead ==
    /\ cacheDir' = TRUE
    /\ UNCHANGED <<idFile, ctxFile, queueFile, now, config, workFile, pc, buf, hist>>

SetCachedUserContext(p, data) ==
    /\ Idle(p)
    /\ CtxSaved(setCachedUserContext(loadContextCache(ctxFile), data, now))
    /\ hist' = [hist EXCEPT !.userSet = [set |-> TRUE, data |-> data, at |-> now]]
    /\ ReturnedNothing

SetCachedClawdContext(p, data) ==
    /\ Idle(p)
    /\ CtxSaved(setCachedClawdContext(loadContextCache(ctxFile), data, now))
    /\ hist' = [hist EXCEPT !.clawdSet = [set |-> TRUE, data |-> data, at |-> now]]
    /\ ReturnedNothing

GetCachedUserContext(p) ==
    /\ Idle(p)
    /\ CtxRead
    /\ ReturnedLast(p, "getCachedUserContext", Null, getCachedUserContext(ctxFile, now, config))

GetCachedClawdContext(p) ==
    /\ Idle(p)
    /\ CtxRead
    /\ ReturnedLast(p, "getCachedClawdContext", Null, getCachedClawdContext(ctxFile, now, config))

IsContextCacheStale(p) ==
    /\ Idle(p)
    /\ CtxRead
    /\ ReturnedLast(p, "isContextCacheStale", Null, isContextCacheStale(ctxFile, now, config))

IncrementMessageCount(p) ==
    /\ Idle(p)
    /\ MessageCount(loadContextCache(ctxFile)) < MaxCount
    /\ LET cache == incrementMessageCount(loadContextCache(ctxFile))
       IN /\ CtxSaved(cache)
          /\ ReturnedLast(p, "incrementMessageCount", Null, cache.messageCount)
    /\ hist' = [hist EXCEPT !.incs = @ + 1,
                            !.mark = IF @.set THEN [@ EXCEPT !.incs = @ + 1] ELSE @]

ShouldRefreshKnowledgeGraph(p) ==
    /\ Idle(p)
    /\ CtxRead
    /\ ReturnedLast(p, "shouldRefreshKnowledgeGraph", Null,
                    shouldRefreshKnowledgeGraph(ctxFile, config))

MarkKnowledgeGraphRefreshed(p) ==
    /\ Idle(p)
    /\ CtxSaved(markKnowledgeGraphRefreshed(loadContextCache(ctxFile)))
    /\ hist' = [hist EXCEPT !.refreshed = TRUE,
                            !.mark = [set |-> TRUE, count |-> hist.incs, incs |-> 0]]
    /\ ReturnedNothing

ResetMessageCount(p) ==
    /\ Idle(p)
    /\ CtxSaved(resetMessageCount(loadContextCache(ctxFile)))
    /\ hist' = [hist EXCEPT !.reset = TRUE, !.refreshed = FALSE, !.incs = 0, !.mark = NoMark]
    /\ ReturnedNothing

\* time passes
TickSteps == {1, 999, 299999}
Tick(d) ==
    /\ hist.ticks < MaxTicks
    /\ now' = now + d
    /\ hist' = [hist EXCEPT !.ticks = @ + 1]
    /\ ReturnedNothing
    /\ UNCHANGED <<cacheDir, idFile, ctxFile, queueFile, config, workFile, pc, buf>>

InitWith(cfgs) ==
    /\ InitFiles
    /\ InitProcs
    /\ now = 0
    /\ config \in cfgs
    /\ hist = NoHist

\* the time-to-live of the sections
TtlConfigs == {EmptyDoc, [ttlSeconds |-> 1]}
InitTtl == InitWith(TtlConfigs)

NextTtl ==
    \/ \E p \in Procs :
          \/ \E data \in DataVals : SetCachedUserContext(p, data)
          \/ \E data \in DataVals : SetCachedClawdContext(p, data)
          \/ GetCachedUserContext(p)
          \/ GetCachedClawdContext(p)
          \/ IsContextCacheStale(p)
          \/ ResetMessageCount(p)
    \/ \E d \in TickSteps : Tick(d)

SpecTtl == InitTtl /\ [][NextTtl]_vars

\* the message counters
CountConfigs == {EmptyDoc, [messageThreshold |-> 2]}
InitCount == InitWith(CountConfigs)

NextCount ==
    \E p \in Procs :
        \/ IncrementMessageCount(p)
        \/ ShouldRefreshKnowledgeGraph(p)
        \/ MarkKnowledgeGraphRefreshed(p)
        \/ ResetMessageCount(p)
        \/ \E data \in DataVals : SetCachedUserContext(p, data)

SpecCount == InitCount /\ [][NextCount]_vars

(***************************************************************************)
(* Context cache: two hook processes at once.  A changing call is three     *)
(* steps: it loads the document and changes it in memory, it opens the      *)
(* file for writing (which empties it), it writes the text.                 *)
(***************************************************************************)
CtxOps == {"setCachedUserContext", "setCachedClawdContext", "incrementMessageCount",
           "markKnowledgeGraphRefreshed", "resetMessageCount"}

CtxChanged(op, cache, data, t) ==
    CASE op = "setCachedUserContext" -> setCachedUserContext(cache, data, t)
      [] op = "setCachedClawdContext" -> setCachedClawdContext(cache, data, t)
      [] op = "incrementMessageCount" -> incrementMessageCount(cache)
      [] op = "markKnowledgeGraphRefreshed" -> markKnowledgeGraphRefreshed(cache)
      [] op = "resetMessageCount" -> resetMessageCount(cache)

\* loadContextCache() and the change of the loaded document
CtxLoaded(p, op, data) ==
    /\ Idle(p)
    /\ op = "incrementMessageCount" => MessageCount(loadContextCache(ctxFile)) < MaxConcCount
    /\ cacheDir' = TRUE
    /\ pc' = [pc EXCEPT ![p] = "ctx-save"]
    /\ buf' = [buf EXCEPT ![p] = [op |-> op,
                                  cache |-> CtxChanged(op, loadContextCache(ctxFile), data, now)]]
    /\ UNCHANGED <<idFile, ctxFile, queueFile, now, config, workFile, ret>>

CtxLoad(p, op, data) ==
    /\ CtxLoaded(p, op, data)
    /\ UNCHANGED hist

\* saveContextCache(cache): writeFileSync opens the file
CtxOpen(p) ==
    /\ pc[p] = "ctx-save"
    /\ ctxFile' = Truncated
    /\ pc' = [pc EXCEPT ![p] = "ctx-write"]
    /\ hist' = [hist EXCEPT !.opened = ctxFile]
    /\ UNCHANGED <<cacheDir, idFile, queueFile, now, config, workFile, buf, ret>>

\* saveContextCache(cache): writeFileSync writes the text
CtxWritten(p) ==
    /\ pc[p] = "ctx-write"
    /\ ctxFile' = Overlay(ctxFile, CtxStringify(buf[p].cache))
    /\ pc' = [pc EXCEPT ![p] = "idle"]
    /\ buf' = [buf EXCEPT ![p] = Null]
    /\ UNCHANGED <<cacheDir, idFile, queueFile, now, config, workFile>>

CtxWrite(p) ==
    /\ CtxWritten(p)
    /\ hist' = [hist EXCEPT !.opened = NoFile]
    /\ UNCHANGED ret

NextCtxConc ==
    \E p \in Procs :
        \/ \E op \in CtxOps : CtxLoad(p, op, "d1")
        \/ CtxOpen(p)
        \/ CtxWrite(p)

InitCtxConc == InitWith({EmptyDoc})

SpecCtxConc == InitCtxConc /\ [][NextCtxConc]_vars

(***************************************************************************)
(* incrementMessageCount() of two hook processes at once.  A batch is the   *)
(* calls from one that starts while no call is running to the next such     *)
(* one: the count stored when it starts, the number of its calls, the       *)
(* values they have returned.                                               *)
(***************************************************************************)
\* incrementMessageCount(): loadContextCache() and the increment
MaxIncCalls == 4

IncLoad(p) ==
    /\ hist.incs < MaxIncCalls
    /\ CtxLoaded(p, "incrementMessageCount", Null)
    /\ hist' = [hist EXCEPT !.incs = @ + 1,
                            !.batch =
                        IF \A q \in Procs : Idle(q)
                        THEN [c |-> MessageCount(loadContextCache(ctxFile)), n |-> 1,
                              returned |-> {}]
                        ELSE [@ EXCEPT !.n = @ + 1]]

\* incrementMessageCount(): the write of saveContextCache, and the return of
\* cache.messageCount
IncWrite(p) ==
    /\ CtxWritten(p)
    /\ ret' = [ret EXCEPT ![p] = [op |-> "incrementMessageCount", arg |-> Null,
                                  val |-> buf[p].cache.messageCount]]
    /\ hist' = [hist EXCEPT !.opened = NoFile,
                            !.batch.returned = @ \cup {buf[p].cache.messageCount}]

NextIncConc ==
    \E p \in Procs :
        \/ IncLoad(p)
        \/ CtxOpen(p)
        \/ IncWrite(p)

SpecIncConc == InitCtxConc /\ [][NextIncConc]_vars

(***************************************************************************)
(* The stored message count across the writes of two hook processes: the    *)
(* count a completed write leaves in the file, and the one before it.       *)
(***************************************************************************)
\* the write of saveContextCache, of any changing call
CountWrite(p) ==
    /\ CtxWritten(p)
    /\ hist' = [hist EXCEPT !.opened = NoFile,
                            !.stored = [op |-> buf[p].op,
                                        count |-> MessageCount(loadContextCache(ctxFile')),
                                        before |-> @.count]]
    /\ UNCHANGED ret

CountOps == {"setCachedUserContext", "setCachedClawdContext", "incrementMessageCount",
             "resetMessageCount"}

NextCountConc ==
    \E p \in Procs :
        \/ \E op \in CountOps : CtxLoad(p, op, "d1")
        \/ CtxOpen(p)
        \/ CountWrite(p)

SpecCountConc == InitCtxConc /\ [][NextCountConc]_vars

(***************************************************************************)
(* Identity cache: calls, run one at a time.                                *)
(***************************************************************************)
IdSaved(cache) ==
    /\ cacheDir' = TRUE
    /\ idFile' = saveIdCache(cache)
    /\ ReturnedNothing
    /\ UNCHANGED <<ctxFile, queueFile, now, config, workFile, pc, buf>>

IdRead ==
    /\ cacheDir' = TRUE
    /\ hist' = [hist EXCEPT !.idBefore = idFile]
    /\ UNCHANGED <<idFile, ctxFile, queueFile, now, config, workFile, pc, buf>>

SetCachedWorkspaceId(p, name, id) ==
    /\ Idle(p)
    /\ IdSaved(setCachedWorkspaceId(loadIdCache(idFile), name, id))
    /\ hist' = [hist EXCEPT !.ws = [set |-> TRUE, name |-> name, id |-> id],
                            !.idBefore = idFile]

GetCachedWorkspaceId(p, workspaceName) ==
    /\ Idle(p)
    /\ IdRead
    /\ ReturnedLast(p, "getCachedWorkspaceId", workspaceName,
                    getCachedWorkspaceId(idFile, workspaceName))

SetCachedPeerId(p, peerName, peerId) ==
    /\ Idle(p)
    /\ IdSaved(setCachedPeerId(loadIdCache(idFile), peerName, peerId))
    /\ hist' = [hist EXCEPT !.idBefore = idFile]

GetCachedPeerId(p, peerName) ==
    /\ Idle(p)
    /\ IdRead
    /\ ReturnedLast(p, "getCachedPeerId", peerName, getCachedPeerId(idFile, peerName))

SetCachedSessionId(p, cwd, name, id) ==
    /\ Idle(p)
    /\ IdSaved(setCachedSessionId(loadIdCache(idFile), cwd, name, id, now))
    /\ hist' = [hist EXCEPT !.idBefore = idFile]

GetCachedSessionId(p, cwd) ==
    /\ Idle(p)
    /\ IdRead
    /\ ReturnedLast(p, "getCachedSessionId", cwd, getCachedSessionId(idFile, cwd))

SetClaudeInstanceId(p, instanceId) ==
    /\ Idle(p)
    /\ IdSaved(setClaudeInstanceId(loadIdCache(idFile), instanceId))
    /\ hist' = [hist EXCEPT !.idBefore = idFile]

GetClaudeInstanceId(p) ==
    /\ Idle(p)
    /\ IdRead
    /\ ReturnedLast(p, "getClaudeInstanceId", Null, getClaudeInstanceId(idFile))

NextId ==
    \E p \in Procs :
        \/ \E name \in WorkspaceNames, id \in Ids : SetCachedWorkspaceId(p, name, id)
        \/ \E name \in WorkspaceNames : GetCachedWorkspaceId(p, name)
        \/ \E peerName \in PeerNames, peerId \in Ids : SetCachedPeerId(p, peerName, peerId)
        \/ \E peerName \in PeerNames : GetCachedPeerId(p, peerName)
        \/ \E cwd \in Cwds, name \in SessionNames, id \in Ids : SetCachedSessionId(p, cwd, name, id)
        \/ \E cwd \in Cwds : GetCachedSessionId(p, cwd)
        \/ \E instanceId \in InstanceIds : SetClaudeInstanceId(p, instanceId)
        \/ GetClaudeInstanceId(p)

SpecId == Init /\ [][NextId]_vars

(***************************************************************************)
(* loadIdCache, saveIdCache, loadContextCache and saveContextCache called   *)
(* with any document of the cache's type, and a cache file that something   *)
(* other than a save has written (text that is not JSON).                   *)
(***************************************************************************)
\* the IdCache documents of the model
IdDocs ==
    LET workspaces == {EmptyDoc} \cup
            {[workspace |-> [name |-> "A", id |-> "id1"]],
             [workspace |-> [name |-> "B", id |-> "id2"]]}
        peers == {EmptyDoc, [peers |-> EmptyDoc], [peers |-> [user |-> "id2", clawd |-> "id1"]]}
        sessions == {EmptyDoc,
                     [sessions |-> [c \in {"/a"} |-> [name |-> "sess", id |-> "id1", updatedAt |-> 0]]]}
        instances == {EmptyDoc, [claudeInstanceId |-> "i1"]}
    IN {w @@ pe @@ s @@ c : w \in workspaces, pe \in peers, s \in sessions, c \in instances}

\* the ContextCache documents of the model
CtxDocs ==
    LET users == {EmptyDoc, [userContext |-> [data |-> "d1", fetchedAt |-> 0]]}
        clawds == {EmptyDoc, [clawdContext |-> [data |-> "d2", fetchedAt |-> 0]]}
        counts == {EmptyDoc, [messageCount |-> 3]}
        lasts == {EmptyDoc, [lastRefreshMessageCount |-> 2]}
    IN {u @@ c @@ m @@ l : u \in users, c \in clawds, m \in counts, l \in lasts}

\* texts that JSON.parse rejects: nothing, a document cut short, a document
\* without its opening, two documents run together
NonJsonTexts ==
    {<<>>,
     <<LBrace>>,
     <<LBrace, StrField("claudeInstanceId", "i1")>>,
     <<NumField("messageCount", 3), RBrace>>,
     <<LBrace, RBrace, LBrace, NumField("messageCount", 3), RBrace>>}

\* saveIdCache(cache)
SaveIdCache(p, cache) ==
    /\ Idle(p)
    /\ IdSaved(cache)
    /\ hist' = [hist EXCEPT !.idSaved = [set |-> TRUE, doc |-> cache,
                                         over |-> DOMAIN loadIdCache(idFile) \ DOMAIN cache # {}]]

\* loadIdCache()
LoadIdCache(p) ==
    /\ Idle(p)
    /\ CtxRead
    /\ ReturnedLast(p, "loadIdCache", Null, loadIdCache(idFile))

\* saveContextCache(cache)
SaveContextCache(p, cache) ==
    /\ Idle(p)
    /\ CtxSaved(cache)
    /\ ReturnedNothing
    /\ hist' = [hist EXCEPT !.ctxSaved = [set |-> TRUE, doc |-> cache,
                                          over |-> DOMAIN loadContextCache(ctxFile) \ DOMAIN cache # {}]]

\* loadContextCache()
LoadContextCache(p) ==
    /\ Idle(p)
    /\ CtxRead
    /\ ReturnedLast(p, "loadContextCache", Null, loadContextCache(ctxFile))

\* something that is not a save writes the identity cache file
GarbleIdFile(text) ==
    /\ idFile' = WriteFile(text)
    /\ hist' = [hist EXCEPT !.idSaved = NoSaved]
    /\ ReturnedNothing
    /\ UNCHANGED <<cacheDir, ctxFile, queueFile, now, config, workFile, pc, buf>>

\* something that is not a save writes the context cache file
GarbleCtxFile(text) ==
    /\ ctxFile' = WriteFile(text)
    /\ hist' = [hist EXCEPT !.ctxSaved = NoSaved]
    /\ ReturnedNothing
    /\ UNCHANGED <<cacheDir, idFile, queueFile, now, config, workFile, pc, buf>>

NextRound ==
    \/ \E p \in Procs :
          \/ \E cache \in IdDocs : SaveIdCache(p, cache)
          \/ LoadIdCache(p)
          \/ \E cache \in CtxDocs : SaveContextCache(p, cache)
          \/ LoadContextCache(p)
    \/ \E text \in NonJsonTexts : GarbleIdFile(text)
    \/ \E text \in NonJsonTexts : GarbleCtxFile(text)

SpecRound == Init /\ [][NextRound]_vars

(***************************************************************************)
(* Identity cache: a set call in steps.  It loads the document and changes  *)
(* it in memory, it opens the file for writing (which empties it), it       *)
(* writes the text.                                                         *)
(***************************************************************************)
MaxIdSets == 2

IdOps == {"setCachedWorkspaceId", "setCachedPeerId", "setCachedSessionId", "setClaudeInstanceId"}

IdChanged(op, cache, key, name, id, t) ==
    CASE op = "setCachedWorkspaceId" -> setCachedWorkspaceId(cache, key, id)
      [] op = "setCachedPeerId" -> setCachedPeerId(cache, key, id)
      [] op = "setCachedSessionId" -> setCachedSessionId(cache, key, name, id, t)
      [] op = "setClaudeInstanceId" -> setClaudeInstanceId(cache, id)

\* loadIdCache() and the change of the loaded document
IdLoad(p, op, key, name, id) ==
    /\ Idle(p)
    /\ hist.idSets < MaxIdSets
    /\ cacheDir' = TRUE
    /\ pc' = [pc EXCEPT ![p] = "id-save"]
    /\ buf' = [buf EXCEPT ![p] = [op |-> op, key |-> key, id |-> id,
                                  cache |-> IdChanged(op, loadIdCache(idFile), key, name, id, now)]]
    /\ hist' = [hist EXCEPT !.idSets = @ + 1]
    /\ UNCHANGED <<idFile, ctxFile, queueFile, now, config, workFile, ret>>

\* saveIdCache(cache): writeFileSync opens the file
IdOpen(p) ==
    /\ pc[p] = "id-save"
    /\ idFile' = Truncated
    /\ pc' = [pc EXCEPT ![p] = "id-write"]
    /\ hist' = [hist EXCEPT !.opened = idFile]
    /\ UNCHANGED <<cacheDir, ctxFile, queueFile, now, config, workFile, buf, ret>>

\* saveIdCache(cache): writeFileSync writes the text
IdWrite(p) ==
    /\ pc[p] = "id-write"
    /\ idFile' = Overlay(idFile, IdStringify(buf[p].cache))
    /\ pc' = [pc EXCEPT ![p] = "idle"]
    /\ buf' = [buf EXCEPT ![p] = Null]
    /\ hist' = [hist EXCEPT !.written = @ \cup {<<buf[p].op, buf[p].key, buf[p].id>>},
                            !.opened = NoFile]
    /\ UNCHANGED <<cacheDir, ctxFile, queueFile, now, config, workFile, ret>>

(***************************************************************************)
(* A process killed inside a save.  Only one process is inside a call at a  *)
(* time here: what a kill leaves does not depend on another writer.  The   *)
(* behaviour is followed up to the kill.                                    *)
(***************************************************************************)
Alone(p) == \A q \in Procs \ {p} : pc[q] \in {"idle", "dead"}

\* markMessagesUploaded(forCwd): writeFileSync opens the file
MarkOpen(p) ==
    /\ pc[p] = "mark-write"
    /\ queueFile' = Truncated
    /\ pc' = [pc EXCEPT ![p] = "mark-put"]
    /\ hist' = [hist EXCEPT !.opened = queueFile]
    /\ UNCHANGED <<cacheDir, idFile, ctxFile, now, config, workFile, buf, ret>>

\* markMessagesUploaded(forCwd): writeFileSync writes the text
MarkPut(p) ==
    /\ pc[p] = "mark-put"
    /\ queueFile' = Overlay(queueFile, Remaining(buf[p].content, buf[p].forCwd))
    /\ pc' = [pc EXCEPT ![p] = "idle"]
    /\ buf' = [buf EXCEPT ![p] = Null]
    /\ hist' = [hist EXCEPT !.expected = FilterSeq(@, buf[p].forCwd), !.opened = NoFile]
    /\ UNCHANGED <<cacheDir, idFile, ctxFile, now, config, workFile, ret>>

BeforeOpen == {"id-save", "ctx-save", "mark-write"}
AfterOpen == {"id-write", "ctx-write", "mark-put"}

\* the file the call of p is saving, and the text it is to write
SavedFile(p) ==
    CASE pc[p] \in {"id-save", "id-write"} -> idFile
      [] pc[p] \in {"ctx-save", "ctx-write"} -> ctxFile
      [] pc[p] \in {"mark-write", "mark-put"} -> queueFile

SavedText(p) ==
    CASE pc[p] \in {"id-save", "id-write"} -> IdStringify(buf[p].cache)
      [] pc[p] \in {"ctx-save", "ctx-write"} -> CtxStringify(buf[p].cache)
      [] pc[p] \in {"mark-write", "mark-put"} -> Remaining(buf[p].content, buf[p].forCwd)

\* the process is killed inside a save, before or after writeFileSync has
\* opened the file
Kill(p) ==
    /\ pc[p] \in BeforeOpen \cup AfterOpen
    /\ ~hist.kill.set
    /\ pc' = [pc EXCEPT ![p] = "dead"]
    /\ buf' = [buf EXCEPT ![p] = Null]
    /\ hist' = [hist EXCEPT !.kill = [set |-> TRUE,
                                      old |-> IF pc[p] \in BeforeOpen THEN SavedFile(p)
                                              ELSE hist.opened,
                                      new |-> WriteFile(SavedText(p)),
                                      got |-> SavedFile(p)]]
    /\ UNCHANGED <<cacheDir, idFile, ctxFile, queueFile, now, config, workFile, ret>>

NextKill ==
    \E p \in Procs :
        \/ /\ Alone(p)
           /\ ~hist.kill.set
           /\ \/ IdLoad(p, "setCachedWorkspaceId", "A", Null, "id1")
              \/ \E instanceId \in InstanceIds :
                    IdLoad(p, "setClaudeInstanceId", Null, Null, instanceId)
              \/ \E op \in {"setCachedUserContext", "resetMessageCount"} : CtxLoad(p, op, "d1")
              \/ \E cwd \in Cwds : MarkRead(p, cwd)
              \/ \E cwd \in Cwds :
                    hist.appends < MaxConcAppends /\ QueueMessage(p, "m1", "user", cwd, Null)
        \/ IdOpen(p)
        \/ IdWrite(p)
        \/ CtxOpen(p)
        \/ CtxWrite(p)
        \/ MarkOpen(p)
        \/ MarkPut(p)
        \/ Kill(p)

SpecKill == Init /\ [][NextKill]_vars

(***************************************************************************)
(* Identity cache: two hook processes at once.  A get is one read of the    *)
(* file; a set is the three steps above.                                    *)
(***************************************************************************)
NextIdConc ==
    \E p \in Procs :
        \/ IdLoad(p, "setCachedWorkspaceId", "A", Null, "id1")
        \/ IdLoad(p, "setCachedWorkspaceId", "B", Null, "id2")
        \/ IdLoad(p, "setCachedPeerId", "user", Null, "id1")
        \/ IdLoad(p, "setCachedPeerId", "clawd", Null, "id2")
        \/ IdLoad(p, "setCachedSessionId", "/a", "sess", "id1")
        \/ \E instanceId \in InstanceIds : IdLoad(p, "setClaudeInstanceId", Null, Null, instanceId)
        \/ IdOpen(p)
        \/ IdWrite(p)
        \/ \E name \in WorkspaceNames : GetCachedWorkspaceId(p, name)
        \/ \E peerName \in PeerNames : GetCachedPeerId(p, peerName)
        \/ \E cwd \in Cwds : GetCachedSessionId(p, cwd)
        \/ GetClaudeInstanceId(p)

SpecIdConc == Init /\ [][NextIdConc]_vars

(***************************************************************************)
(* One setter call on caches that are already filled, run alone.            *)
(***************************************************************************)
MaxFrameCalls == 1

FullIdDoc ==
    [workspace |-> [name |-> "A", id |-> "id1"],
     peers |-> [user |-> "id1", clawd |-> "id2"],
     sessions |-> [c \in Cwds |-> [name |-> "sess", id |-> "id1", updatedAt |-> 0]],
     claudeInstanceId |-> "i1"]

FullCtxDoc ==
    [userContext |-> [data |-> "d1", fetchedAt |-> 0],
     clawdContext |-> [data |-> "d2", fetchedAt |-> 0],
     summaries |-> [data |-> "d1", fetchedAt |-> 0],
     messageCount |-> 3, lastRefreshMessageCount |-> 2]

InitFrame ==
    /\ cacheDir = TRUE
    /\ idFile \in {NoFile} \cup {saveIdCache(doc) : doc \in IdDocs \cup {FullIdDoc}}
    /\ ctxFile \in {NoFile} \cup {saveContextCache(doc) : doc \in CtxDocs \cup {FullCtxDoc}}
    /\ queueFile = NoFile
    /\ workFile = NoFile
    /\ InitProcs
    /\ now = 1
    /\ config = EmptyDoc
    /\ hist = NoHist

Framed(op, key) ==
    hist' = [hist EXCEPT !.frame = [calls |-> @.calls + 1, op |-> op, key |-> key,
                                    id |-> idFile, ctx |-> ctxFile]]

\* a setter of the identity cache
IdCall(p, op, key, name, id) ==
    /\ Idle(p)
    /\ hist.frame.calls < MaxFrameCalls
    /\ IdSaved(IdChanged(op, loadIdCache(idFile), key, name, id, now))
    /\ Framed(op, key)

\* a setter or a counter operation of the context cache
CtxCall(p, op, data) ==
    /\ Idle(p)
    /\ hist.frame.calls < MaxFrameCalls
    /\ CtxSaved(CtxChanged(op, loadContextCache(ctxFile), data, now))
    /\ ReturnedNothing
    /\ Framed(op, Null)

NextFrame ==
    \E p \in Procs :
        \/ \E name \in WorkspaceNames, id \in Ids : IdCall(p, "setCachedWorkspaceId", name, Null, id)
        \/ \E name \in PeerNames, id \in Ids : IdCall(p, "setCachedPeerId", name, Null, id)
        \/ \E cwd \in Cwds, id \in Ids : IdCall(p, "setCachedSessionId", cwd, "sess", id)
        \/ \E id \in InstanceIds : IdCall(p, "setClaudeInstanceId", Null, Null, id)
        \/ \E op \in CtxOps, data \in DataVals : CtxCall(p, op, data)

SpecFrame == InitFrame /\ [][NextFrame]_vars

(***************************************************************************)
(* Work-log (CLAWD_CONTEXT_FILE).  Its text is a sequence of tokens too: a  *)
(* token is either the line break or the text of one line.                  *)
(***************************************************************************)
MaxWorkAppends == 4

Marker == "## Recent Activity"
Descriptions == {"w1", "w2", "see ## Recent Activity"}

TextLine(str) == Tok("text", "", "", str, 0)
\* `- [${timestamp}] ${workDescription}`
EntryLine(timestamp, workDescription) == Tok("text", "- [] ", "", workDescription, timestamp)

\* l.includes("## Recent Activity"), over the strings of the model
Includes(line) ==
    \E i \in 1..Len(line) : line[i].s \in {Marker, "see ## Recent Activity"}

\* the text appendClawdWork starts from when there is none
SeedText ==
    <<TextLine("# CLAWD Work Context"), NL, NL,
      TextLine("Auto-generated log of CLAWD's recent work."), NL, NL,
      TextLine(Marker), NL>>

\* the text generateClawdSummary builds for no work items and no actions
SummaryText ==
    <<TextLine("# CLAWD Work Context"), NL, NL,
      TextLine("Last updated: "), NL,
      TextLine("Session: "), NL, NL,
      TextLine("## What CLAWD Was Working On"), NL, NL,
      TextLine(Marker), NL>>

\* a work-log somebody has edited: the header is gone
EditedText == <<TextLine("my notes"), NL, EntryLine(0, "w1"), NL, EntryLine(0, "w2")>>

loadClawdLocalContext(file) == IF ~file.exists THEN <<>> ELSE file.content
saveClawdLocalContext(content) == WriteFile(content)

\* lines.findIndex(...): the first index (from 0) of a line with the marker, or -1
FindIndex(lines) ==
    IF \E i \in 1..Len(lines) : Includes(lines[i])
    THEN (CHOOSE i \in 1..Len(lines) :
              Includes(lines[i]) /\ \A h \in 1..(i - 1) : ~Includes(lines[h])) - 1
    ELSE -1

\* array.slice(start, end) and array.slice(start), indices from 0
Slice(seq, start, end) ==
    LET len == Len(seq)
        from == IF start < 0 THEN (IF len + start < 0 THEN 0 ELSE len + start)
                ELSE (IF start > len THEN len ELSE start)
        to == IF end > len THEN len ELSE end
    IN SubSeq(seq, from + 1, to)

\* faulty variant of SliceFrom: the first entries are kept, not the last
SliceFromStart(seq, start) == Slice(seq, 0, IF start < 0 THEN 0 - start ELSE Len(seq))

SliceFrom(seq, start) == Slice(seq, start, Len(seq))

\* lines.join("\n")
RECURSIVE JoinLines(_)
JoinLines(lines) ==
    IF Len(lines) = 0 THEN <<>>
    ELSE IF Len(lines) = 1 THEN Head(lines)
    ELSE Head(lines) \o <<NL>> \o JoinLines(Tail(lines))

\* faulty variant of appendClawdWork: the lines are trimmed to the last
\* entries whether or not a line with the marker was found
appendClawdWorkTrimAlways(loaded, workDescription, timestamp, cfg) ==
    LET entry == <<NL, EntryLine(timestamp, workDescription)>>
        existing == IF Len(loaded) = 0 THEN SeedText ELSE loaded
        lines == Split(existing)
        activityStart == FindIndex(lines)
        header == Slice(lines, 0, activityStart + 1)
        activities == SelectSeq(SliceFrom(lines, activityStart + 1), Trimmed)
        recentActivities == SliceFrom(activities, 0 - (cfg.maxEntries - 1))
    IN JoinLines(header \o recentActivities) \o entry

\* faulty variant of appendClawdWork: the blank lines of the header are
\* filtered out with those of the activities
appendClawdWorkFilterAll(loaded, workDescription, timestamp, cfg) ==
    LET entry == <<NL, EntryLine(timestamp, workDescription)>>
        existing == IF Len(loaded) = 0 THEN SeedText ELSE loaded
        lines == Split(existing)
        activityStart == FindIndex(lines)
        header == SelectSeq(Slice(lines, 0, activityStart + 1), Trimmed)
        activities == SelectSeq(SliceFrom(lines, activityStart + 1), Trimmed)
        recentActivities == SliceFrom(activities, 0 - (cfg.maxEntries - 1))
        trimmed == IF activityStart # -1
                   THEN JoinLines(header \o recentActivities)
                   ELSE existing
    IN trimmed \o entry

\* the text appendClawdWork(workDescription) writes, from the text it loaded
appendClawdWork(loaded, workDescription, timestamp, cfg) ==
    LET entry == <<NL, EntryLine(timestamp, workDescription)>>
        existing == IF Len(loaded) = 0 THEN SeedText ELSE loaded
        lines == Split(existing)
        activityStart == FindIndex(lines)
        header == Slice(lines, 0, activityStart + 1)
        activities == SelectSeq(SliceFrom(lines, activityStart + 1), Trimmed)
        recentActivities == SliceFrom(activities, 0 - (cfg.maxEntries - 1))
        trimmed == IF activityStart # -1
                   THEN JoinLines(header \o recentActivities)
                   ELSE existing
    IN trimmed \o entry

\* appendClawdWork(workDescription)
AppendClawdWork(p, workDescription) ==
    /\ Idle(p)
    /\ Len(hist.work.descs) < MaxWorkAppends
    /\ cacheDir' = TRUE
    /\ workFile' = saveClawdLocalContext(
                       appendClawdWork(loadClawdLocalContext(workFile), workDescription,
                                       now, config))
    /\ hist' = [hist EXCEPT !.work =
                    [descs |-> Append(@.descs, workDescription),
                     fromEmpty |-> IF @.descs = <<>>
                                   THEN Len(loadClawdLocalContext(workFile)) = 0
                                   ELSE @.fromEmpty,
                     before |-> loadClawdLocalContext(workFile)]]
    /\ UNCHANGED <<idFile, ctxFile, queueFile, now, config, pc, buf, ret>>

\* loadClawdLocalContext()
LoadClawdLocalContext(p) ==
    /\ Idle(p)
    /\ cacheDir' = TRUE
    /\ Returned(p, "loadClawdLocalContext", Null, loadClawdLocalContext(workFile))
    /\ UNCHANGED <<idFile, ctxFile, queueFile, workFile, now, config, pc, buf, hist>>

\* maxEntries of the local context configuration
LocalContextConfigs == {[maxEntries |-> n] : n \in {1, 2, 3}}

InitWork ==
    /\ cacheDir = FALSE
    /\ idFile = NoFile
    /\ ctxFile = NoFile
    /\ queueFile = NoFile
    /\ workFile \in {NoFile, WriteFile(<<>>), WriteFile(SummaryText), WriteFile(EditedText)}
    /\ InitProcs
    /\ now = 0
    /\ config \in LocalContextConfigs
    /\ hist = NoHist

NextWork ==
    \E p \in Procs :
        \/ \E workDescription \in Descriptions : AppendClawdWork(p, workDescription)
        \/ LoadClawdLocalContext(p)

SpecWork == InitWork /\ [][NextWork]_vars

(***************************************************************************)
(* handleSessionStart (src/src/hooks/session-start.ts), one hook process    *)
(* per invocation.  A step ends where the handler awaits the remote         *)
(* collaborator; the outcome of each remote call is an input of the step    *)
(* that issues it.  The remote collaborator returns the resource under the  *)
(* id it was asked for.  Git state and feature inference (git.js) are left  *)
(* to one input: whether changes were detected.  One hook process runs at   *)
(* a time here, each run a new process.                                     *)
(***************************************************************************)
HookConfig == [workspace |-> "A", peerName |-> "user", claudePeer |-> "clawd"]

\* getSessionName(cwd): the basename of the directory, lower case
getSessionName(cwd) == IF cwd = "/a" THEN "a" ELSE "b"

ContextCalls == {"getContext(user)", "getContext(clawd)", "summaries", "chat(user)", "chat(clawd)"}
\* a settled call: rejected, fulfilled without a value, fulfilled with content
Outcomes == {"fail", "empty", "value"}
\* the results of the five calls the model goes through: the two dialectic
\* calls and the summaries either fail or have content
Settled ==
    {res \in [ContextCalls -> Outcomes] :
        \A c \in {"summaries", "chat(user)", "chat(clawd)"} : res[c] # "empty"}

\* the section of the output a context call's value gives
SectionOf(call) ==
    CASE call = "getContext(user)" -> "What I Know About user"
      [] call = "getContext(clawd)" -> "clawd's Work History"
      [] call = "summaries" -> "Recent Session Summary"
      [] call = "chat(user)" -> "AI Summary of user"
      [] call = "chat(clawd)" -> "AI Self-Reflection"

CalledMade(p, calls, failed, valued, made) ==
    hist' = [hist EXCEPT !.hook[p] = [calls |-> @.calls \cup calls,
                                      failed |-> @.failed \cup failed,
                                      valued |-> @.valued \cup valued,
                                      had |-> @.had],
                         !.remote = @ \cup made]

Called(p, calls, failed, valued) == CalledMade(p, calls, failed, valued, {})

\* the keys of a run (its workspace, its session, its two peers) that the
\* identity cache holds an entry for
RunKeys == {"workspace", "session", "user", "clawd"}
CachedKeys(file, cfg, cwd) ==
    LET cache == loadIdCache(file)
    IN {key \in RunKeys :
           CASE key = "workspace" ->
                    Has(cache, "workspace") /\ cache.workspace.name = cfg.workspace
             [] key = "session" -> Has(cache, "sessions") /\ Has(cache.sessions, cwd)
             [] key = "user" -> Has(cache, "peers") /\ Has(cache.peers, cfg.peerName)
             [] key = "clawd" -> Has(cache, "peers") /\ Has(cache.peers, cfg.claudePeer)}

\* process.exit(code), after the output (if any) was written
Exit(p, code, parts) ==
    /\ pc' = [pc EXCEPT ![p] = "idle"]
    /\ buf' = [buf EXCEPT ![p] = Null]
    /\ ret' = [ret EXCEPT ![p] = [op |-> "handleSessionStart", arg |-> buf[p].cwd,
                                  val |-> [exit |-> code, parts |-> parts]]]

Goes(p, to, locals) ==
    /\ pc' = [pc EXCEPT ![p] = to]
    /\ buf' = [buf EXCEPT ![p] = locals]
    /\ ret' = ret

\* up to the first remote call: the instance id is stored, the message
\* counters are reset
HookStart(p, cwd, instanceId, gitChanges) ==
    /\ Idle(p)
    /\ cacheDir' = TRUE
    /\ idFile' = IF Falsy(instanceId) THEN idFile
                 ELSE saveIdCache(setClaudeInstanceId(loadIdCache(idFile), instanceId))
    /\ ctxFile' = saveContextCache(resetMessageCount(loadContextCache(ctxFile)))
    /\ pc' = [pc EXCEPT ![p] = "hook-workspace"]
    /\ buf' = [buf EXCEPT ![p] = [cwd |-> cwd, gitChanges |-> gitChanges,
                                  workspaceId |-> Null, sessionId |-> Null,
                                  userPeerId |-> Null, clawdPeerId |-> Null]]
    /\ ReturnedNothing
    /\ hist' = [hist EXCEPT !.hook = [q \in Procs |->
                                         IF q = p
                                         THEN [NoCalls EXCEPT
                                                  !.had = CachedKeys(idFile', config, cwd)]
                                         ELSE NoCalls],
                            !.started = IF Falsy(instanceId) THEN @ ELSE @ \cup {instanceId},
                            !.reset = TRUE, !.refreshed = FALSE, !.incs = 0, !.mark = NoMark,
                            !.stored = [op |-> "handleSessionStart", count |-> 0,
                                        before |-> MessageCount(loadContextCache(ctxFile))]]
    /\ UNCHANGED <<queueFile, workFile, now, config>>

\* step 1: get or create the workspace
HookWorkspace(p, ok) ==
    /\ pc[p] = "hook-workspace"
    /\ LET cached == getCachedWorkspaceId(idFile, config.workspace)
       IN IF ~Falsy(cached)
          THEN /\ ok
               /\ Goes(p, "hook-session", [buf[p] EXCEPT !.workspaceId = cached])
               /\ UNCHANGED <<idFile, hist>>
          ELSE IF ok
          THEN /\ idFile' = saveIdCache(setCachedWorkspaceId(loadIdCache(idFile),
                                                             config.workspace, config.workspace))
               /\ Goes(p, "hook-session", [buf[p] EXCEPT !.workspaceId = config.workspace])
               /\ CalledMade(p, {"workspaces.getOrCreate"}, {}, {},
                             {<<config.workspace, "workspace", config.workspace>>})
          ELSE /\ Exit(p, 1, {})
               /\ Called(p, {"workspaces.getOrCreate"}, {"workspaces.getOrCreate"}, {})
               /\ UNCHANGED idFile
    /\ UNCHANGED <<cacheDir, ctxFile, queueFile, workFile, now, config>>

\* step 2: get or create the session; a cached session is updated without
\* waiting for the answer
HookSession(p, ok) ==
    /\ pc[p] = "hook-session"
    /\ LET cwd == buf[p].cwd
           cached == getCachedSessionId(idFile, cwd)
       IN IF ~Falsy(cached)
          THEN /\ Goes(p, "hook-peers", [buf[p] EXCEPT !.sessionId = cached])
               /\ Called(p, {"sessions.update"}, IF ok THEN {} ELSE {"sessions.update"}, {})
               /\ UNCHANGED idFile
          ELSE IF ok
          THEN /\ idFile' = saveIdCache(setCachedSessionId(loadIdCache(idFile), cwd,
                                            getSessionName(cwd), getSessionName(cwd), now))
               /\ Goes(p, "hook-peers", [buf[p] EXCEPT !.sessionId = getSessionName(cwd)])
               /\ CalledMade(p, {"sessions.getOrCreate"}, {}, {},
                             {<<buf[p].workspaceId, "session", getSessionName(cwd)>>})
          ELSE /\ Exit(p, 1, {})
               /\ Called(p, {"sessions.getOrCreate"}, {"sessions.getOrCreate"}, {})
               /\ UNCHANGED idFile
    /\ UNCHANGED <<cacheDir, ctxFile, queueFile, workFile, now, config>>

\* the document with the ids of the given peers stored (setCachedPeerId in
\* the then of each getOrCreate)
WithPeers(cache, names) ==
    LET withUser == IF config.peerName \in names
                    THEN setCachedPeerId(cache, config.peerName, config.peerName) ELSE cache
    IN IF config.claudePeer \in names
       THEN setCachedPeerId(withUser, config.claudePeer, config.claudePeer) ELSE withUser

PeerCall(name) == IF name = "user" THEN "peers.getOrCreate(user)" ELSE "peers.getOrCreate(clawd)"

\* step 3: get or create the two peers, both calls awaited together; `late`
\* is whether the rejection of one call came before the answer of the other
HookPeers(p, okUser, okClawd, late) ==
    /\ pc[p] = "hook-peers"
    /\ LET names == {config.peerName, config.claudePeer}
           misses == {n \in names : Falsy(getCachedPeerId(idFile, n))}
           failed == {n \in misses : ~(IF n = config.peerName THEN okUser ELSE okClawd)}
           answered == IF late THEN {} ELSE misses \ failed
       IN /\ config.peerName \notin misses => okUser
          /\ config.claudePeer \notin misses => okClawd
          /\ failed = {} => ~late
          /\ CalledMade(p, {PeerCall(n) : n \in misses}, {PeerCall(n) : n \in failed}, {},
                        {<<buf[p].workspaceId, "peer", n>> :
                            n \in IF failed = {} THEN misses ELSE answered})
          /\ IF failed = {}
             THEN /\ idFile' = IF misses = {} THEN idFile
                               ELSE saveIdCache(WithPeers(loadIdCache(idFile), misses))
                  /\ Goes(p, "hook-notify", [buf[p] EXCEPT !.userPeerId = config.peerName,
                                                           !.clawdPeerId = config.claudePeer])
             ELSE /\ idFile' = IF answered = {} THEN idFile
                               ELSE saveIdCache(WithPeers(loadIdCache(idFile), answered))
                  /\ Exit(p, 1, {})
    /\ UNCHANGED <<cacheDir, ctxFile, queueFile, workFile, now, config>>

\* step 4 and the upload of the git changes: calls nobody waits for, their
\* failure is swallowed
HookNotify(p, okSet, okUpload) ==
    /\ pc[p] = "hook-notify"
    /\ ~buf[p].gitChanges => okUpload
    /\ Called(p,
              {"sessions.peers.set"} \cup (IF buf[p].gitChanges THEN {"messages.create"} ELSE {}),
              (IF okSet THEN {} ELSE {"sessions.peers.set"})
                  \cup (IF okUpload THEN {} ELSE {"messages.create"}),
              {})
    /\ Goes(p, "hook-fetch", buf[p])
    /\ UNCHANGED <<cacheDir, idFile, ctxFile, queueFile, workFile, now, config>>

\* step 5: the five context calls, settled together; the sections are put
\* together, the two contexts cached, the output written; exit(0)
HookFetch(p, res) ==
    /\ pc[p] = "hook-fetch"
    /\ LET valued == {c \in ContextCalls : res[c] = "value"}
           parts == {"Honcho Memory System Active"}
                      \cup (IF buf[p].gitChanges THEN {"Git Activity Since Last Session"} ELSE {})
                      \cup (IF Len(loadClawdLocalContext(workFile)) > 0
                            THEN {"CLAWD Local Context"} ELSE {})
                      \cup {SectionOf(c) : c \in valued}
           loaded == loadContextCache(ctxFile)
           withUser == IF "getContext(user)" \in valued
                       THEN setCachedUserContext(loaded, "d1", now) ELSE loaded
           withClawd == IF "getContext(clawd)" \in valued
                        THEN setCachedClawdContext(withUser, "d2", now) ELSE withUser
       IN /\ ctxFile' = IF valued \cap {"getContext(user)", "getContext(clawd)"} = {}
                        THEN ctxFile ELSE saveContextCache(withClawd)
          /\ Called(p, ContextCalls, {c \in ContextCalls : res[c] = "fail"}, valued)
          /\ Exit(p, 0, parts)
    /\ UNCHANGED <<cacheDir, idFile, queueFile, workFile, now, config>>

InitStart ==
    /\ cacheDir = FALSE
    /\ idFile = NoFile
    /\ ctxFile = NoFile
    /\ queueFile = NoFile
    /\ workFile \in {NoFile, WriteFile(SummaryText)}
    /\ InitProcs
    /\ now = 0
    /\ config = HookConfig
    /\ hist = NoHist

NextStart ==
    \E p \in {"p1"} :
        \/ \E cwd \in Cwds, instanceId \in {Null, "i1"}, gitChanges \in BOOLEAN :
              HookStart(p, cwd, instanceId, gitChanges)
        \/ \E ok \in BOOLEAN : HookWorkspace(p, ok)
        \/ \E ok \in BOOLEAN : HookSession(p, ok)
        \/ \E okUser \in BOOLEAN, okClawd \in BOOLEAN, late \in BOOLEAN :
              HookPeers(p, okUser, okClawd, late)
        \/ \E okSet \in BOOLEAN, okUpload \in BOOLEAN : HookNotify(p, okSet, okUpload)
        \/ \E res \in Settled : HookFetch(p, res)

SpecStart == InitStart /\ [][NextStart]_vars

(***************************************************************************)
(* Session starts whose get-or-create calls succeed, with time passing      *)
(* between and inside them: what the five context calls leave in the        *)
(* context cache.                                                           *)
(***************************************************************************)
NextFetch ==
    \/ \E p \in {"p1"} :
          \/ HookStart(p, "/a", "i1", FALSE)
          \/ HookWorkspace(p, TRUE)
          \/ HookSession(p, TRUE)
          \/ HookPeers(p, TRUE, TRUE, FALSE)
          \/ HookNotify(p, TRUE, TRUE)
          \/ \E res \in Settled : HookFetch(p, res)
    \/ Tick(1)

SpecFetch == InitStart /\ [][NextFetch]_vars

(***************************************************************************)
(* Session starts whose remote calls succeed, between changes of the        *)
(* configured workspace name.                                               *)
(***************************************************************************)
\* the five context calls all fulfilled with content, and all rejected
AllValued == [c \in ContextCalls |-> "value"]
AllFailed == [c \in ContextCalls |-> "fail"]

\* the user sets another workspace name in the configuration that loadConfig()
\* reads
SetWorkspace(name) ==
    /\ \A p \in Procs : Idle(p)
    /\ name # config.workspace
    /\ config' = [config EXCEPT !.workspace = name]
    /\ UNCHANGED <<cacheDir, idFile, ctxFile, queueFile, workFile, now, pc, buf, ret, hist>>

NextRerun ==
    \/ \E p \in {"p1"} :
          \/ \E cwd \in Cwds : HookStart(p, cwd, "i1", FALSE)
          \/ HookWorkspace(p, TRUE)
          \/ HookSession(p, TRUE)
          \/ HookPeers(p, TRUE, TRUE, FALSE)
          \/ HookNotify(p, TRUE, TRUE)
          \/ \E res \in {AllValued, AllFailed} : HookFetch(p, res)
    \/ \E name \in WorkspaceNames : SetWorkspace(name)

SpecRerun == InitStart /\ [][NextRerun]_vars

(***************************************************************************)
(* Session starts between the calls of the user-prompt hook that count the  *)
(* messages and mark the refreshes.                                         *)
(***************************************************************************)
MaxStartIncs == 3

InitStartCount ==
    /\ InitFiles
    /\ InitProcs
    /\ now = 0
    /\ config = [workspace |-> "A", peerName |-> "user", claudePeer |-> "clawd",
                 messageThreshold |-> 2]
    /\ hist = NoHist

NextStartCount ==
    \E p \in {"p1"} :
        \/ HookStart(p, "/a", "i1", FALSE)
        \/ \E ok \in BOOLEAN : HookWorkspace(p, ok)
        \/ \E ok \in BOOLEAN : HookSession(p, ok)
        \/ \E okUser \in BOOLEAN, okClawd \in BOOLEAN, late \in BOOLEAN :
              HookPeers(p, okUser, okClawd, late)
        \/ \E okSet \in BOOLEAN : HookNotify(p, okSet, TRUE)
        \/ \E res \in {AllValued, AllFailed} : HookFetch(p, res)
        \/ (hist.incs < MaxStartIncs /\ IncrementMessageCount(p))
        \/ MarkKnowledgeGraphRefreshed(p)
        \/ ShouldRefreshKnowledgeGraph(p)

SpecStartCount == InitStartCount /\ [][NextStartCount]_vars

(***************************************************************************)
(* Context formatting (src/src/context-format.ts): pure functions on        *)
(* strings.  A string is the sequence of its characters.                    *)
(***************************************************************************)
MaxFacts == 3

CharAt(str, i) == SubSeq(str, i, i)

UpperCase == "ABCDEFGHIJKLMNOPQRSTUVWXYZ"
LowerCase == "abcdefghijklmnopqrstuvwxyz"

LowerChar(c) ==
    IF \E i \in 1..Len(UpperCase) : CharAt(UpperCase, i) = c
    THEN CharAt(LowerCase, CHOOSE i \in 1..Len(UpperCase) : CharAt(UpperCase, i) = c)
    ELSE c

\* str.toLowerCase()
RECURSIVE toLowerCase(_)
toLowerCase(str) ==
    IF Len(str) = 0 THEN ""
    ELSE LowerChar(CharAt(str, 1)) \o toLowerCase(SubSeq(str, 2, Len(str)))

\* \s
IsSpace(c) == c \in {" ", "\t", "\n"}

\* str.split(/\s+/): pieces between runs of white space (an empty piece where
\* the string starts or ends with white space)
RECURSIVE SplitSpaces(_)
SplitSpaces(str) ==
    IF \A i \in 1..Len(str) : ~IsSpace(CharAt(str, i)) THEN <<str>>
    ELSE LET first == CHOOSE i \in 1..Len(str) :
                          IsSpace(CharAt(str, i)) /\ \A h \in 1..(i - 1) : ~IsSpace(CharAt(str, h))
             after == IF \E j \in first..Len(str) : ~IsSpace(CharAt(str, j))
                      THEN CHOOSE j \in first..Len(str) :
                               ~IsSpace(CharAt(str, j))
                               /\ \A h \in first..(j - 1) : IsSpace(CharAt(str, h))
                      ELSE Len(str) + 1
         IN <<SubSeq(str, 1, first - 1)>> \o SplitSpaces(SubSeq(str, after, Len(str)))

\* f.toLowerCase().split(/\s+/).filter((w) => w.length > 3)
Keywords(f) == SelectSeq(SplitSpaces(toLowerCase(f)), LAMBDA w : Len(w) > 3)

Range(seq) == {seq[i] : i \in 1..Len(seq)}

\* faulty variant of IsUnique: <= for <
IsUniqueAtHalf(keywords, seenKeywords) ==
    LET overlap == Len(SelectSeq(keywords, LAMBDA k : k \in seenKeywords))
        divisor == IF Len(keywords) > 1 THEN Len(keywords) ELSE 1
    IN 2 * overlap <= divisor

\* overlapRatio < 0.5, with overlapRatio = overlap / Math.max(keywords.length, 1)
IsUnique(keywords, seenKeywords) ==
    LET overlap == Len(SelectSeq(keywords, LAMBDA k : k \in seenKeywords))
        divisor == IF Len(keywords) > 1 THEN Len(keywords) ELSE 1
    IN 2 * overlap < divisor

\* the loop of deduplicateFacts over the facts from index i on
RECURSIVE DedupFrom(_, _, _, _)
DedupFrom(facts, i, unique, seenKeywords) ==
    IF i > Len(facts) THEN unique
    ELSE IF IsUnique(Keywords(facts[i]), seenKeywords)
    THEN DedupFrom(facts, i + 1, Append(unique, facts[i]),
                   seenKeywords \cup Range(Keywords(facts[i])))
    ELSE DedupFrom(facts, i + 1, unique, seenKeywords)

\* faulty variant of deduplicateFacts: the loop starts at the second fact
deduplicateFactsFromSecond(facts) ==
    IF Len(facts) <= 1 THEN facts ELSE DedupFrom(facts, 2, <<>>, {})

deduplicateFacts(facts) ==
    IF Len(facts) <= 1 THEN facts ELSE DedupFrom(facts, 1, <<>>, {})

\* the facts of the model
FactPool ==
    {"the quick brown fox", "the quick brown dog", "completely unrelated sentence",
     "Quick  sentence", " Sentence now", "a fox"}

FactLists == UNION {[1..n -> FactPool] : n \in 0..MaxFacts}

\* a call's argument is fixed at the start of the behaviour
InitArgs(args) ==
    /\ InitFiles
    /\ pc = [p \in Procs |-> "idle"]
    /\ \E arg \in args : buf = [p \in Procs |-> arg]
    /\ ret = [p \in Procs |-> NoRet]
    /\ now = 0
    /\ config = EmptyDoc
    /\ hist = NoHist

\* deduplicateFacts(facts)
DeduplicateFacts(p) ==
    /\ Idle(p)
    /\ ReturnedLast(p, "deduplicateFacts", buf[p], deduplicateFacts(buf[p]))
    /\ UNCHANGED <<cacheDir, idFile, ctxFile, queueFile, workFile, now, config, pc, buf, hist>>

InitDedup == InitArgs(FactLists)

NextDedup == \E p \in Procs : DeduplicateFacts(p)

SpecDedup == InitDedup /\ [][NextDedup]_vars

(***************************************************************************)
(* Compressed context (src/src/context-format.ts).  An optional field is a  *)
(* key a document may lack; an undefined argument is the value Undefined.   *)
(***************************************************************************)
Undefined == [undefined |-> TRUE]
Defined(v) == ~Has(v, "undefined")
\* holder?.key
Opt(holder, key) == IF Defined(holder) /\ Has(holder, key) THEN holder[key] ELSE Undefined
\* holder?.key is a non-empty string or array
HasLength(holder, key) == Defined(holder) /\ Has(holder, key) /\ Len(holder[key]) > 0

\* Math.ceil(text.length / 4)
estimateTokens(text) == (Len(text) + 3) \div 4

\* faulty variant of truncateToTokens: no room is left for the ellipsis
truncateToTokensOverlong(text, maxTokens) ==
    LET maxChars == maxTokens * 4
    IN IF Len(text) <= maxChars THEN text ELSE Slice(text, 0, maxChars) \o "..."

truncateToTokens(text, maxTokens) ==
    LET maxChars == maxTokens * 4
    IN IF Len(text) <= maxChars THEN text ELSE Slice(text, 0, maxChars - 3) \o "..."

Tiers == <<"essential", "extended", "deep">>

\* faulty variant of TIER_BUDGETS: the deep tier shows fewer facts than the
\* extended one
TIER_BUDGETS_DeepFewer ==
    [essential |-> [total |-> 300, user |-> [facts |-> 3, insights |-> 2, profile |-> 50],
                    ai |-> [facts |-> 3, work |-> 100], session |-> [summary |-> 50],
                    header |-> 80],
     extended |-> [total |-> 800, user |-> [facts |-> 8, insights |-> 5, profile |-> 100],
                   ai |-> [facts |-> 8, work |-> 200], session |-> [summary |-> 150],
                   header |-> 100],
     deep |-> [total |-> 2000, user |-> [facts |-> 5, insights |-> 10, profile |-> 150],
               ai |-> [facts |-> 15, work |-> 400], session |-> [summary |-> 400],
               header |-> 150]]

TIER_BUDGETS ==
    [essential |-> [total |-> 300, user |-> [facts |-> 3, insights |-> 2, profile |-> 50],
                    ai |-> [facts |-> 3, work |-> 100], session |-> [summary |-> 50],
                    header |-> 80],
     extended |-> [total |-> 800, user |-> [facts |-> 8, insights |-> 5, profile |-> 100],
                   ai |-> [facts |-> 8, work |-> 200], session |-> [summary |-> 150],
                   header |-> 100],
     deep |-> [total |-> 2000, user |-> [facts |-> 15, insights |-> 10, profile |-> 150],
               ai |-> [facts |-> 15, work |-> 400], session |-> [summary |-> 400],
               header |-> 150]]

\* parts.join(sep)
RECURSIVE JoinWith(_, _)
JoinWith(parts, sep) ==
    IF Len(parts) = 0 THEN ""
    ELSE IF Len(parts) = 1 THEN Head(parts)
    ELSE Head(parts) \o sep \o JoinWith(Tail(parts), sep)

\* array.map((e) => e[key])
Field(array, key) == [i \in 1..Len(array) |-> array[i][key]]

buildCompactHeader(ctx) ==
    LET git == Opt(ctx, "git")
    IN JoinWith(<<"user=" \o ctx.user.name, "ai=" \o ctx.ai.name,
              "ws=" \o ctx.session.workspace, "session=" \o ctx.session.name>>
            \o (IF HasLength(git, "branch") THEN <<"branch=" \o git.branch>> ELSE <<>>)
            \o (IF HasLength(git, "commit") THEN <<"head=" \o Slice(git.commit, 0, 7)>> ELSE <<>>)
            \o (IF Defined(git) /\ Has(git, "isDirty") /\ git.isDirty
                THEN <<"dirty=" \o ToString(IF Has(git, "dirtyFiles") THEN Len(git.dirtyFiles) ELSE 0)>>
                ELSE <<>>),
            " | ")

\* a line `label: items joined`, unless there are no items or the joined
\* string is empty
JoinedLine(label, holder, key, field, max) ==
    IF HasLength(holder, key)
    THEN LET items == Slice(holder[key], 0, max)
             joined == JoinWith(IF field = "" THEN items ELSE Field(items, field), "; ")
         IN IF joined # "" THEN <<label \o ": " \o joined>> ELSE <<>>
    ELSE <<>>

\* faulty variant of buildCompactUserFacts: a line for every array of a
\* context, empty or not
buildCompactUserFactsAnyArray(context, maxFacts, maxInsights) ==
    (IF Defined(context) /\ Has(context, "explicit")
     THEN <<"facts: " \o JoinWith(Field(Slice(context.explicit, 0, maxFacts), "content"), "; ")>>
     ELSE <<>>)
    \o (IF Defined(context) /\ Has(context, "deductive")
        THEN <<"insights: "
               \o JoinWith(Field(Slice(context.deductive, 0, maxInsights), "conclusion"), "; ")>>
        ELSE <<>>)
    \o (IF Defined(context) /\ Has(context, "peerCard")
        THEN <<"profile: " \o JoinWith(Slice(context.peerCard, 0, 3), "; ")>>
        ELSE <<>>)

buildCompactUserFacts(context, maxFacts, maxInsights) ==
    JoinedLine("facts", context, "explicit", "content", maxFacts)
    \o JoinedLine("insights", context, "deductive", "conclusion", maxInsights)
    \o JoinedLine("profile", context, "peerCard", "", 3)

\* faulty variant of buildCompactAIWork: the local work text is not cut
buildCompactAIWorkUncut(context, localWork, maxFacts, maxWorkChars) ==
    JoinedLine("recent", context, "explicit", "content", maxFacts)
    \o (IF Defined(localWork) /\ localWork.text # ""
        THEN <<"local: " \o localWork.text>> ELSE <<>>)

buildCompactAIWork(context, localWork, maxFacts, maxWorkChars) ==
    JoinedLine("recent", context, "explicit", "content", maxFacts)
    \o (IF Defined(localWork) /\ localWork.text # ""
        THEN <<"local: " \o Slice(localWork.text, 0, maxWorkChars)>> ELSE <<>>)

buildCompactFeature(feature) ==
    IF ~Defined(feature) \/ feature.confidence = "low" THEN ""
    ELSE JoinWith(<<feature.type \o ": " \o feature.description>>
              \o (IF HasLength(feature, "keywords")
                  THEN <<"keywords=[" \o JoinWith(Slice(feature.keywords, 0, 5), ",") \o "]">> ELSE <<>>)
              \o (IF HasLength(feature, "areas")
                  THEN <<"areas=[" \o JoinWith(Slice(feature.areas, 0, 3), ",") \o "]">> ELSE <<>>),
              " ")

\* a string-valued optional argument, as a value that can be tested
OptText(holder, key) ==
    IF Defined(holder) /\ Has(holder, key) THEN [text |-> holder[key]] ELSE Undefined

\* faulty variant of formatCompressedContext: the dialectic is shown at every
\* tier when it is asked for
formatCompressedContextAnyTier(ctx, cfg) ==
    LET budget == TIER_BUDGETS[cfg.tier]
        featureLine == buildCompactFeature(Opt(ctx, "feature"))
        session == Opt(ctx.session, "context")
    IN JoinWith(<<"[honcho-memory]", buildCompactHeader(ctx)>>
            \o (IF Has(ctx, "feature") /\ featureLine # ""
                THEN <<"feature: " \o featureLine>> ELSE <<>>)
            \o (IF HasLength(ctx, "changes")
                THEN <<"changes: " \o JoinWith(Slice(ctx.changes, 0, 3), "; ")>> ELSE <<>>)
            \o <<"[" \o ctx.user.name \o "]">>
            \o buildCompactUserFacts(Opt(ctx.user, "context"), budget.user.facts,
                                     budget.user.insights)
            \o <<"[" \o ctx.ai.name \o "]">>
            \o buildCompactAIWork(Opt(ctx.ai, "context"), OptText(ctx.ai, "localWork"),
                                  budget.ai.facts, budget.ai.work)
            \o (IF cfg.tier # "essential" /\ HasLength(session, "shortSummary")
                THEN <<"[session]",
                       "summary: " \o truncateToTokens(session.shortSummary,
                                                       budget.session.summary)>>
                ELSE <<>>)
            \o (IF Has(cfg, "includeDialectic") /\ cfg.includeDialectic
                THEN (IF HasLength(ctx.user, "dialectic")
                      THEN <<"[" \o ctx.user.name \o "/ai-understanding]", ctx.user.dialectic>>
                      ELSE <<>>)
                     \o (IF HasLength(ctx.ai, "dialectic")
                         THEN <<"[" \o ctx.ai.name \o "/self-reflection]", ctx.ai.dialectic>>
                         ELSE <<>>)
                ELSE <<>>)
            \o <<"[end-memory]">>,
            "\n")

formatCompressedContext(ctx, cfg) ==
    LET budget == TIER_BUDGETS[cfg.tier]
        featureLine == buildCompactFeature(Opt(ctx, "feature"))
        session == Opt(ctx.session, "context")
    IN JoinWith(<<"[honcho-memory]", buildCompactHeader(ctx)>>
            \o (IF Has(ctx, "feature") /\ featureLine # ""
                THEN <<"feature: " \o featureLine>> ELSE <<>>)
            \o (IF HasLength(ctx, "changes")
                THEN <<"changes: " \o JoinWith(Slice(ctx.changes, 0, 3), "; ")>> ELSE <<>>)
            \o <<"[" \o ctx.user.name \o "]">>
            \o buildCompactUserFacts(Opt(ctx.user, "context"), budget.user.facts,
                                     budget.user.insights)
            \o <<"[" \o ctx.ai.name \o "]">>
            \o buildCompactAIWork(Opt(ctx.ai, "context"), OptText(ctx.ai, "localWork"),
                                  budget.ai.facts, budget.ai.work)
            \o (IF cfg.tier # "essential" /\ HasLength(session, "shortSummary")
                THEN <<"[session]",
                       "summary: " \o truncateToTokens(session.shortSummary,
                                                       budget.session.summary)>>
                ELSE <<>>)
            \o (IF cfg.tier = "deep" /\ Has(cfg, "includeDialectic") /\ cfg.includeDialectic
                THEN (IF HasLength(ctx.user, "dialectic")
                      THEN <<"[" \o ctx.user.name \o "/ai-understanding]", ctx.user.dialectic>>
                      ELSE <<>>)
                     \o (IF HasLength(ctx.ai, "dialectic")
                         THEN <<"[" \o ctx.ai.name \o "/self-reflection]", ctx.ai.dialectic>>
                         ELSE <<>>)
                ELSE <<>>)
            \o <<"[end-memory]">>,
            "\n")

\* the contexts of the model: lists longer and shorter than each tier's
\* limits, texts longer and shorter than each tier's budgets
MaxItems == 16
MaxWorkChars == 401
MaxSummaryChars == 1601

\* a text of n characters
RECURSIVE Chars(_)
Chars(n) ==
    IF n = 0 THEN ""
    ELSE IF n % 2 = 1 THEN "x" \o Chars(n - 1)
    ELSE LET half == Chars(n \div 2) IN half \o half

Items(n, key) == [i \in 1..n |-> Put(EmptyDoc, key, "item " \o ToString(i))]
Names(n) == [i \in 1..n |-> "n" \o ToString(i)]

UserContexts ==
    {Undefined, EmptyDoc, [explicit |-> <<[content |-> ""]>>],
     [explicit |-> <<>>, deductive |-> <<>>, peerCard |-> <<>>]}
    \cup {[explicit |-> Items(n, "content"), deductive |-> Items(m, "conclusion"),
           peerCard |-> Names(4)] : n \in {2, 4, MaxItems}, m \in {0, 3, 6, 11}}

AiContexts == {Undefined} \cup {[explicit |-> Items(n, "content")] : n \in {4, 9, MaxItems}}

LocalWorks == {Undefined, [text |-> ""]} \cup {[text |-> Chars(n)] : n \in {150, MaxWorkChars}}

ShortSummaries ==
    {Undefined} \cup {[text |-> Chars(n)] : n \in {1, 598, 601, MaxSummaryChars}}

Dialectics == {Undefined, [text |-> "asks for tests first"]}

GitContexts ==
    {Undefined,
     [branch |-> "main", commit |-> "0123456789abcdef", isDirty |-> TRUE,
      dirtyFiles |-> <<"a.ts", "b.ts">>]}

FeatureContexts ==
    {Undefined,
     [type |-> "bugfix", description |-> "queue", keywords |-> Names(6), areas |-> Names(4),
      confidence |-> "high"]}

\* holder with key set to the optional value, if it is defined
With(holder, key, value) ==
    IF ~Defined(value) THEN holder
    ELSE Put(holder, key, IF Has(value, "text") /\ DOMAIN value = {"text"} THEN value.text ELSE value)

FullContexts ==
    {With(With(
        [user |-> With(With([name |-> "user"], "context", uc), "dialectic", d),
         ai |-> With(With(With([name |-> "clawd"], "context", ac), "localWork", lw),
                     "dialectic", d),
         session |-> With([name |-> "sess", workspace |-> "A", cwd |-> "/a"], "context",
                          IF Defined(ss) THEN [shortSummary |-> ss.text] ELSE EmptyDoc)],
        "git", g), "feature", f) :
        uc \in UserContexts, ac \in AiContexts, lw \in LocalWorks, ss \in ShortSummaries,
        d \in Dialectics, g \in GitContexts, f \in FeatureContexts}

ContextConfigs ==
    {[tier |-> Tiers[i], includeDialectic |-> b] : i \in 1..Len(Tiers), b \in BOOLEAN}
    \cup {[tier |-> Tiers[i]] : i \in 1..Len(Tiers)}

\* formatCompressedContext(ctx, config), ctx being the call's argument
FormatCompressedContext(p, cfg) ==
    /\ Idle(p)
    /\ ReturnedLast(p, "formatCompressedContext", [ctx |-> buf[p], config |-> cfg],
                    formatCompressedContext(buf[p], cfg))
    /\ UNCHANGED <<cacheDir, idFile, ctxFile, queueFile, workFile, now, config, pc, buf, hist>>

InitCompressed == InitArgs(FullContexts)

NextCompressed == \E p \in {"p1"} : \E cfg \in ContextConfigs : FormatCompressedContext(p, cfg)

SpecCompressed == InitCompressed /\ [][NextCompressed]_vars

\* the contexts that differ in what the budgets apply to: the lists, the local
\* work and the session summary
BudgetContexts ==
    {[user |-> With([name |-> "user"], "context", uc),
      ai |-> With(With([name |-> "clawd"], "context", ac), "localWork", lw),
      session |-> With([name |-> "sess", workspace |-> "A", cwd |-> "/a"], "context",
                       IF Defined(ss) THEN [shortSummary |-> ss.text] ELSE EmptyDoc)] :
        uc \in UserContexts, ac \in AiContexts, lw \in LocalWorks, ss \in ShortSummaries}

InitBudget == InitArgs(BudgetContexts)

SpecBudget == InitBudget /\ [][NextCompressed]_vars

(***************************************************************************)
(* The verbose renderer (src/src/context-format.ts), and both renderers on  *)
(* contexts whose items can be told apart in the output.                    *)
(***************************************************************************)
\* array.forEach((c) => sections.push(`- ${c}`))
Bullets(array) == [i \in 1..Len(array) |-> "- " \o array[i]]

buildVerboseHeader(ctx) ==
    LET git == Opt(ctx, "git")
    IN <<"## Session Context", "- User: " \o ctx.user.name, "- AI: " \o ctx.ai.name,
         "- Workspace: " \o ctx.session.workspace, "- Session: " \o ctx.session.name,
         "- Directory: " \o ctx.session.cwd>>
       \o (IF HasLength(git, "branch")
           THEN <<"- Branch: " \o git.branch>>
                \o (IF HasLength(git, "commit") THEN <<"- HEAD: " \o git.commit>> ELSE <<>>)
                \o (IF Has(git, "isDirty") /\ git.isDirty
                    THEN <<"- Uncommitted: "
                           \o ToString(IF Has(git, "dirtyFiles") THEN Len(git.dirtyFiles) ELSE 0)
                           \o " files">>
                    ELSE <<>>)
           ELSE <<>>)

\* `- ${d.conclusion}${source}`
InsightLine(d) ==
    "- " \o d.conclusion
    \o (IF HasLength(d, "premises") THEN " (from: " \o JoinWith(d.premises, ", ") \o ")" ELSE "")

buildVerboseUserContext(name, context, dialectic, maxFacts, maxInsights) ==
    (IF HasLength(context, "peerCard")
     THEN <<"## " \o name \o "'s Profile">> \o Bullets(context.peerCard) ELSE <<>>)
    \o (IF HasLength(context, "explicit")
        THEN <<"## What I Know About " \o name, "### Facts">>
             \o Bullets(Field(Slice(context.explicit, 0, maxFacts), "content"))
        ELSE <<>>)
    \o (IF HasLength(context, "deductive")
        THEN <<"### Insights">>
             \o [i \in 1..Len(Slice(context.deductive, 0, maxInsights)) |->
                    InsightLine(context.deductive[i])]
        ELSE <<>>)
    \o (IF Defined(dialectic) /\ dialectic.text # ""
        THEN <<"## AI Summary of " \o name, dialectic.text>> ELSE <<>>)

buildVerboseAIContext(name, context, dialectic, localWork, maxFacts, maxWorkChars) ==
    (IF Defined(localWork) /\ localWork.text # ""
     THEN <<"## " \o name \o "'s Local Context", Slice(localWork.text, 0, maxWorkChars)>>
     ELSE <<>>)
    \o (IF HasLength(context, "explicit")
        THEN <<"## " \o name \o "'s Work History">>
             \o Bullets(Field(Slice(context.explicit, 0, maxFacts), "content"))
        ELSE <<>>)
    \o (IF Defined(dialectic) /\ dialectic.text # ""
        THEN <<"## AI Self-Reflection", dialectic.text>> ELSE <<>>)

buildVerboseSessionSummary(session) ==
    (IF HasLength(session, "shortSummary")
     THEN <<"## Recent Session Summary", session.shortSummary>> ELSE <<>>)
    \o (IF HasLength(session, "longSummary")
        THEN <<"## Extended History", session.longSummary>> ELSE <<>>)

formatVerboseContext(ctx, cfg) ==
    LET budget == TIER_BUDGETS[cfg.tier]
        feature == Opt(ctx, "feature")
        asked == Has(cfg, "includeDialectic") /\ cfg.includeDialectic
    IN JoinWith(buildVerboseHeader(ctx)
            \o (IF Defined(feature) /\ feature.confidence # "low"
                THEN <<"## Inferred Feature Context", "- Type: " \o feature.type,
                       "- Description: " \o feature.description>>
                     \o (IF HasLength(feature, "keywords")
                         THEN <<"- Keywords: " \o JoinWith(feature.keywords, ", ")>> ELSE <<>>)
                     \o (IF HasLength(feature, "areas")
                         THEN <<"- Areas: " \o JoinWith(feature.areas, ", ")>> ELSE <<>>)
                     \o <<"- Confidence: " \o feature.confidence>>
                ELSE <<>>)
            \o (IF HasLength(ctx, "changes")
                THEN <<"## Git Activity Since Last Session">> \o Bullets(ctx.changes)
                ELSE <<>>)
            \o buildVerboseUserContext(ctx.user.name, Opt(ctx.user, "context"),
                                       IF asked THEN OptText(ctx.user, "dialectic") ELSE Undefined,
                                       budget.user.facts, budget.user.insights)
            \o buildVerboseAIContext(ctx.ai.name, Opt(ctx.ai, "context"),
                                     IF asked THEN OptText(ctx.ai, "dialectic") ELSE Undefined,
                                     OptText(ctx.ai, "localWork"),
                                     budget.ai.facts, budget.ai.work)
            \o (IF cfg.tier # "essential"
                THEN buildVerboseSessionSummary(Opt(ctx.session, "context")) ELSE <<>>),
            "\n")

\* the length of the lists of these contexts
MaxSelectItems == 4

\* n items with the texts `label 1` .. `label n` under key
Labelled(n, key, label) == [i \in 1..n |-> Put(EmptyDoc, key, label \o " " \o ToString(i))]
Labels(n, label) == [i \in 1..n |-> label \o " " \o ToString(i)]

SelectUserContexts ==
    {Undefined,
     [explicit |-> Labelled(MaxSelectItems, "content", "fact"),
      deductive |-> Labelled(MaxSelectItems - 1, "conclusion", "insight"),
      peerCard |-> Labels(MaxSelectItems, "profile")]}
SelectAiContexts == {Undefined, [explicit |-> Labelled(MaxSelectItems, "content", "work")]}
SelectLocalWorks == {Undefined, [text |-> "local notes"]}
SelectSessions ==
    {Undefined, [shortSummary |-> "did a refactor"],
     [shortSummary |-> "did a refactor", longSummary |-> "long history"]}
UserDialectics == {Undefined, [text |-> ""], [text |-> "asks for tests first"]}
AiDialectics == {Undefined, [text |-> ""], [text |-> "prefers small diffs"]}
ChangeLists == {Undefined, [list |-> Labels(MaxSelectItems, "change")]}

SelectContexts ==
    {LET base == [user |-> With(With([name |-> "user"], "context", uc), "dialectic", ud),
                  ai |-> With(With(With([name |-> "clawd"], "context", ac), "localWork", lw),
                              "dialectic", ad),
                  session |-> With([name |-> "sess", workspace |-> "A", cwd |-> "/a"],
                                   "context", ss)]
     IN IF Defined(ch) THEN Put(base, "changes", ch.list) ELSE base :
        uc \in SelectUserContexts, ud \in UserDialectics, ac \in SelectAiContexts,
        lw \in SelectLocalWorks, ad \in AiDialectics, ss \in SelectSessions,
        ch \in ChangeLists}

\* formatVerboseContext(ctx, config), ctx being the call's argument
FormatVerboseContext(p, cfg) ==
    /\ Idle(p)
    /\ ReturnedLast(p, "formatVerboseContext", [ctx |-> buf[p], config |-> cfg],
                    formatVerboseContext(buf[p], cfg))
    /\ UNCHANGED <<cacheDir, idFile, ctxFile, queueFile, workFile, now, config, pc, buf, hist>>

InitSelect == InitArgs(SelectContexts)

NextSelect ==
    \E p \in {"p1"} : \E cfg \in ContextConfigs :
        \/ FormatCompressedContext(p, cfg)
        \/ FormatVerboseContext(p, cfg)

SpecSelect == InitSelect /\ [][NextSelect]_vars

(***************************************************************************)
(* truncateToTokens on texts shorter and longer than the budget, with and   *)
(* without dots of their own.                                               *)
(***************************************************************************)
MaxTextLen == 17
MaxTokens == 4

Texts ==
    {SubSeq("abcdefghijklmnopqrstuvwxyz", 1, n) : n \in 0..MaxTextLen}
    \cup {SubSeq("a...b...c...d...e...f...g.", 1, n) : n \in 0..MaxTextLen}

\* truncateToTokens(text, maxTokens), text being the call's argument
TruncateToTokens(p, maxTokens) ==
    /\ Idle(p)
    /\ ReturnedLast(p, "truncateToTokens", [text |-> buf[p], maxTokens |-> maxTokens],
                    truncateToTokens(buf[p], maxTokens))
    /\ UNCHANGED <<cacheDir, idFile, ctxFile, queueFile, workFile, now, config, pc, buf, hist>>

InitTruncate == InitArgs(Texts)

NextTruncate == \E p \in {"p1"} : \E maxTokens \in 1..MaxTokens : TruncateToTokens(p, maxTokens)

SpecTruncate == InitTruncate /\ [][NextTruncate]_vars

(***************************************************************************)
(* Prompt context (src/src/context-format.ts).                              *)
(***************************************************************************)
MaxPromptItems == 6

\* the parts of formatPromptContext
PromptParts(context) ==
    (IF HasLength(context, "explicit")
     THEN <<"facts: " \o JoinWith(Field(Slice(context.explicit, 0, 5), "content"), "; ")>>
     ELSE <<>>)
    \o (IF HasLength(context, "deductive")
        THEN <<"insights: " \o JoinWith(Field(Slice(context.deductive, 0, 3), "conclusion"), "; ")>>
        ELSE <<>>)
    \o (IF HasLength(context, "peerCard")
        THEN <<"profile: " \o JoinWith(Slice(context.peerCard, 0, 2), "; ")>>
        ELSE <<>>)

\* faulty variant of formatPromptContext: no test for parts.length === 0
formatPromptContextAlways(peerName, context) ==
    "[Honcho/" \o peerName \o "] " \o JoinWith(PromptParts(context), " | ")

formatPromptContext(peerName, context) ==
    LET parts == PromptParts(context)
    IN IF Len(parts) = 0 THEN ""
       ELSE "[Honcho/" \o peerName \o "] " \o JoinWith(parts, " | ")

\* an object with the optional arrays that are given (length -1: not given)
OptArrays(n, m, k) ==
    (IF n >= 0 THEN [explicit |-> IF n = 1 THEN <<[content |-> ""]>> ELSE Items(n, "content")]
     ELSE EmptyDoc)
    @@ (IF m >= 0 THEN [deductive |-> Items(m, "conclusion")] ELSE EmptyDoc)
    @@ (IF k >= 0 THEN [peerCard |-> Names(k)] ELSE EmptyDoc)

PromptLengths == {-1, 0, 1, MaxPromptItems}

PromptArgs ==
    {[peerName |-> name, context |-> context] :
        name \in {"user", "", "a b"},
        context \in {Undefined} \cup {OptArrays(n, m, k) : n, m, k \in PromptLengths}}

\* formatPromptContext(peerName, context), with the call's arguments
FormatPromptContext(p) ==
    /\ Idle(p)
    /\ ReturnedLast(p, "formatPromptContext", buf[p],
                    formatPromptContext(buf[p].peerName, buf[p].context))
    /\ UNCHANGED <<cacheDir, idFile, ctxFile, queueFile, workFile, now, config, pc, buf, hist>>

InitPrompt == InitArgs(PromptArgs)

NextPrompt == \E p \in Procs : FormatPromptContext(p)

SpecPrompt == InitPrompt /\ [][NextPrompt]_vars

(***************************************************************************)
(* Message queue and instance id: queueMessage with and without an          *)
(* instanceId, between calls that store an instance id.                     *)
(***************************************************************************)
NextInst ==
    \E p \in Procs :
        \/ \E instanceId \in {Null, ""} \cup InstanceIds :
              QueueMessage(p, "m1", "user", "/a", instanceId)
        \/ \E instanceId \in {""} \cup InstanceIds : SetClaudeInstanceId(p, instanceId)
        \/ SetCachedWorkspaceId(p, "A", "id1")

SpecInst == Init /\ [][NextInst]_vars

(***************************************************************************)
(* Two agent sessions at once, each with its hook processes: the session    *)
(* start hook, then hooks that queue messages without an instanceId.        *)
(***************************************************************************)
\* the session whose hooks run as p
SessionOf(p) ==
    IF p = "p1" THEN [cwd |-> "/a", session_id |-> "i1"]
    ELSE [cwd |-> "/b", session_id |-> "i2"]

NextSessions ==
    \E p \in Procs :
        \/ /\ SessionOf(p).session_id \notin hist.started
           /\ HookStart(p, SessionOf(p).cwd, SessionOf(p).session_id, FALSE)
        \/ HookWorkspace(p, TRUE)
        \/ HookSession(p, TRUE)
        \/ HookPeers(p, TRUE, TRUE, FALSE)
        \/ HookNotify(p, TRUE, TRUE)
        \/ HookFetch(p, AllValued)
        \/ /\ SessionOf(p).session_id \in hist.started
           /\ hist.appends < MaxConcAppends
           /\ \E content \in Contents : QueueMessage(p, content, "user", SessionOf(p).cwd, Null)

SpecSessions == InitStart /\ [][NextSessions]_vars

(***************************************************************************)
(* Claims about the message queue.                                          *)
(***************************************************************************)
MarkedCwd == hist.last.op = "markMessagesUploaded" /\ ~Falsy(hist.last.cwd)

\* C1: markUploaded(cwd) with a non-empty cwd removes exactly the messages of
\* that cwd: right after it, getPending() returns the messages that were
\* pending before the call and belong to another cwd, in their former order,
\* and none of the given cwd.
C1_SelectiveDelete ==
    MarkedCwd =>
        getQueuedMessages(queueFile, Null)
            = FilterSeq(getQueuedMessages(hist.last.before, Null), hist.last.cwd)

C1_Witness ==
    /\ MarkedCwd
    /\ hist.last.cwd = "/a"
    /\ Len(getQueuedMessages(hist.last.before, "/a")) >= 1
    /\ Len(getQueuedMessages(hist.last.before, "/b")) = 2
    /\ getQueuedMessages(hist.last.before, Null)[1].cwd = "/b"
    /\ getQueuedMessages(hist.last.before, Null)[1].content
          # getQueuedMessages(hist.last.before, Null)[3].content
    /\ Len(getQueuedMessages(queueFile, Null)) = 2

\* C2: after any sequence of enqueue, markUploaded and clearAll calls, with
\* processes killed between calls, getPending() returns the enqueued messages
\* that no markUploaded or clearAll removed, each once and in enqueue order.
C2_AppendDurable == getQueuedMessages(queueFile, Null) = hist.expected

C2_Witness ==
    /\ hist.appends = MaxAppends
    /\ Len(hist.expected) = 2
    /\ hist.expected[1].content # hist.expected[2].content
    /\ \E p \in Procs : pc[p] = "dead"
    /\ getQueuedMessages(queueFile, Null) = hist.expected

\* C3: a message enqueued for a cwd that no markUploaded was called for is
\* still in the queue, whatever another process's markUploaded of another
\* cwd does meanwhile.
C3_OtherCwdIntact ==
    \A i \in 1..Len(hist.expected) :
        hist.expected[i].cwd \notin hist.marked
            => InSeq(ValidMessages(queueFile), hist.expected[i])

\* C4: every message that the markUploaded(cwd) of an acknowledging process
\* removed from the file was in the result of the getPending(cwd) that the
\* process made before.
C4_RemovedWereReturned == hist.unacked = <<>>

\* C5: getPending() returns every valid pending message of the file, in file
\* order, whatever lines that do not parse the file holds besides.
C5_CorruptLineDropped ==
    getQueuedMessages(queueFile, Null)
        = SelectSeq(ValidMessages(queueFile), LAMBDA msg : ~Uploaded(msg))

\* C6: markUploaded(cwd) keeps every line that does not parse, removes the
\* lines of the given cwd that parse and keeps all other lines.
C6_UnparseableLineKept ==
    (MarkedCwd /\ hist.last.before.exists) =>
        NonBlankLines(queueFile.content)
            = SelectSeq(NonBlankLines(hist.last.before.content),
                        LAMBDA line : ~WellFormed(line)
                                      \/ CwdOf(MsgParse(line)) # hist.last.cwd)

(***************************************************************************)
(* Claims about the context cache.                                          *)
(***************************************************************************)
\* what a get must return for a section last set as `set`, at time t
Expected(set, t, ttl) == IF set.set /\ t - set.at < ttl THEN set.data ELSE Null

\* C7: getUserContext() and getAgentContext() return the stored data if and
\* only if the section exists and now - fetchedAt is strictly less than the
\* configured TTL (300 s by default: a hit 299.999 s after the set, a miss from
\* 300 s on), and set stores fetchedAt = now.
C7_TtlBoundary ==
    /\ getCachedUserContext(ctxFile, now, config)
          = Expected(hist.userSet, now, getContextTTL(config))
    /\ getCachedClawdContext(ctxFile, now, config)
          = Expected(hist.clawdSet, now, getContextTTL(config))
    /\ \A p \in Procs :
          /\ ret[p].op = "getCachedUserContext"
                => ret[p].val = Expected(hist.userSet, now, getContextTTL(config))
          /\ ret[p].op = "getCachedClawdContext"
                => ret[p].val = Expected(hist.clawdSet, now, getContextTTL(config))
    /\ hist.userSet.set
          => /\ Has(loadContextCache(ctxFile), "userContext")
             /\ loadContextCache(ctxFile).userContext.fetchedAt = hist.userSet.at
    /\ hist.clawdSet.set
          => /\ Has(loadContextCache(ctxFile), "clawdContext")
             /\ loadContextCache(ctxFile).clawdContext.fetchedAt = hist.clawdSet.at
    /\ (config = EmptyDoc /\ hist.userSet.set)
          => /\ now - hist.userSet.at <= 299999
                   => getCachedUserContext(ctxFile, now, config) = hist.userSet.data
             /\ now - hist.userSet.at >= 300000
                   => getCachedUserContext(ctxFile, now, config) = Null

C7_Witness ==
    /\ config = EmptyDoc
    /\ hist.userSet.set
    /\ now - hist.userSet.at = 300000
    /\ \E p \in Procs : ret[p].op = "getCachedUserContext" /\ ret[p].val = Null
    /\ hist.clawdSet.set
    /\ now - hist.clawdSet.at = 299999
    /\ getCachedClawdContext(ctxFile, now, config) = hist.clawdSet.data

\* C8: after resetMessageCount() and then k incrementMessageCount() calls with
\* no markRefreshed(), shouldRefreshDeepContext() is true if and only if
\* k >= threshold; with the default threshold of 50 it is false after 49
\* calls and true after 50.
C8_ThresholdTrigger ==
    (hist.reset /\ ~hist.refreshed) =>
        /\ shouldRefreshKnowledgeGraph(ctxFile, config)
              = (hist.incs >= getMessageRefreshThreshold(config))
        /\ \A p \in Procs :
              ret[p].op = "shouldRefreshKnowledgeGraph"
                  => ret[p].val = (hist.incs >= getMessageRefreshThreshold(config))
        /\ (config = EmptyDoc /\ hist.incs = 49) => ~shouldRefreshKnowledgeGraph(ctxFile, config)
        /\ (config = EmptyDoc /\ hist.incs = 50) => shouldRefreshKnowledgeGraph(ctxFile, config)

C8_Witness ==
    /\ hist.reset
    /\ ~hist.refreshed
    /\ config = EmptyDoc
    /\ hist.incs = 50
    /\ \E p \in Procs : ret[p].op = "shouldRefreshKnowledgeGraph" /\ ret[p].val = TRUE

CountersOrdered(cache) == MessageCount(cache) >= LastRefreshMessageCount(cache)

\* C9: whatever the interleaving of incrementMessageCount, markRefreshed,
\* resetMessageCount, setUserContext and setAgentContext of two processes, the
\* document in the file (and every document a process is about to save) has
\* messageCount >= lastRefreshMessageCount, absent fields read as 0.
C9_CountNotBelowLastRefresh ==
    /\ CountersOrdered(loadContextCache(ctxFile))
    /\ \A p \in Procs : pc[p] # "idle" => CountersOrdered(buf[p].cache)

C9_Witness ==
    /\ LastRefreshMessageCount(loadContextCache(ctxFile)) = MaxConcCount
    /\ \E p \in Procs :
          /\ pc[p] = "ctx-save"
          /\ buf[p].op = "setCachedUserContext"
          /\ MessageCount(buf[p].cache) < LastRefreshMessageCount(loadContextCache(ctxFile))

(***************************************************************************)
(* Claims about the identity cache.                                         *)
(***************************************************************************)
\* what getWorkspaceId(n) must return after the set calls so far
ExpectedWorkspaceId(n) == IF hist.ws.set /\ hist.ws.name = n THEN hist.ws.id ELSE Null

\* C10: getWorkspaceId(n) returns an id if and only if the most recent
\* setWorkspaceId call used exactly the name n, and then that call's id; a
\* request for another name is a miss and leaves the cached workspace (the
\* whole file) as it was.
C10_OneWorkspaceByName ==
    /\ \A n \in WorkspaceNames : getCachedWorkspaceId(idFile, n) = ExpectedWorkspaceId(n)
    /\ \A p \in Procs :
          ret[p].op = "getCachedWorkspaceId"
              => /\ ret[p].val = ExpectedWorkspaceId(ret[p].arg)
                 /\ idFile = hist.idBefore

C10_Witness ==
    /\ hist.ws = [set |-> TRUE, name |-> "A", id |-> "id1"]
    /\ \E p \in Procs :
          /\ ret[p].op = "getCachedWorkspaceId"
          /\ ret[p].arg = "B"
          /\ ret[p].val = Null
    /\ getCachedWorkspaceId(idFile, "A") = "id1"
    /\ getCachedPeerId(idFile, "user") = "id2"
    /\ getCachedSessionId(idFile, "/a") = "id2"
    /\ getClaudeInstanceId(idFile) = "i1"

(***************************************************************************)
(* Claims about save and load.                                              *)
(***************************************************************************)
\* C11: for the identity cache and the context cache, load() after save(D),
\* with no write in between, returns a document equal to D, whatever the file
\* held before the save: nothing of the previous document that is not in D
\* is left.
C11_SaveLoadRoundTrip ==
    /\ hist.idSaved.set =>
          /\ loadIdCache(idFile) = hist.idSaved.doc
          /\ \A p \in Procs : ret[p].op = "loadIdCache" => ret[p].val = hist.idSaved.doc
    /\ hist.ctxSaved.set =>
          /\ loadContextCache(ctxFile) = hist.ctxSaved.doc
          /\ \A p \in Procs : ret[p].op = "loadContextCache" => ret[p].val = hist.ctxSaved.doc

C11_Witness ==
    /\ hist.idSaved.set
    /\ hist.idSaved.over
    /\ hist.idSaved.doc = [peers |-> EmptyDoc, claudeInstanceId |-> "i1"]
    /\ \E p \in Procs : ret[p].op = "loadIdCache" /\ ret[p].val = hist.idSaved.doc
    /\ hist.ctxSaved.set
    /\ hist.ctxSaved.over
    /\ hist.ctxSaved.doc = [messageCount |-> 3, lastRefreshMessageCount |-> 2]
    /\ loadContextCache(ctxFile) = hist.ctxSaved.doc

Unreadable(file) == ~file.exists \/ ~WellFormed(file.content)

\* C12: for a cache file that is missing or holds text that is not JSON,
\* loadIdCache and loadContextCache return the empty document and raise
\* nothing, every getter is a miss, isStale is true and shouldRefresh counts
\* both counters as 0.
C12_LoadNeverFails ==
    /\ Unreadable(idFile) =>
          /\ loadIdCache(idFile) = EmptyDoc
          /\ \A n \in WorkspaceNames : getCachedWorkspaceId(idFile, n) = Null
          /\ \A n \in PeerNames : getCachedPeerId(idFile, n) = Null
          /\ \A cwd \in Cwds : getCachedSessionId(idFile, cwd) = Null
          /\ getClaudeInstanceId(idFile) = Null
          /\ \A p \in Procs : ret[p].op = "loadIdCache" => ret[p].val = EmptyDoc
    /\ Unreadable(ctxFile) =>
          /\ loadContextCache(ctxFile) = EmptyDoc
          /\ getCachedUserContext(ctxFile, now, config) = Null
          /\ getCachedClawdContext(ctxFile, now, config) = Null
          /\ isContextCacheStale(ctxFile, now, config)
          /\ shouldRefreshKnowledgeGraph(ctxFile, config)
                = (0 - 0 >= getMessageRefreshThreshold(config))
          /\ \A p \in Procs : ret[p].op = "loadContextCache" => ret[p].val = EmptyDoc

C12_Witness ==
    /\ idFile.exists
    /\ idFile.content = <<LBrace, StrField("claudeInstanceId", "i1")>>
    /\ hist.idSaved = NoSaved
    /\ ctxFile.exists
    /\ Len(ctxFile.content) = 5
    /\ ~WellFormed(ctxFile.content)
    /\ \E p \in Procs : ret[p].op = "loadContextCache" /\ ret[p].val = EmptyDoc

\* C13: a process killed at any point inside a save of the identity cache, a
\* save of the context cache or the rewrite of markUploaded(cwd) leaves the
\* file with either its complete previous content or the complete new
\* content.
C13_KillLeavesOldOrNew ==
    hist.kill.set => hist.kill.got \in {hist.kill.old, hist.kill.new}

\* the ids that completed set calls wrote for a key
WrittenFor(op, key) == {w[3] : w \in {x \in hist.written : x[1] = op /\ x[2] = key}}

\* C14: under any interleaving of the identity cache's get and set calls of
\* two processes, a get for a key returns either a miss or an id that some
\* set call wrote for that key, never the id of another key.
C14_GetOwnKeyOrMiss ==
    /\ \A n \in WorkspaceNames :
          getCachedWorkspaceId(idFile, n) \in {Null} \cup WrittenFor("setCachedWorkspaceId", n)
    /\ \A n \in PeerNames :
          getCachedPeerId(idFile, n) \in {Null} \cup WrittenFor("setCachedPeerId", n)
    /\ \A cwd \in Cwds :
          getCachedSessionId(idFile, cwd) \in {Null} \cup WrittenFor("setCachedSessionId", cwd)
    /\ getClaudeInstanceId(idFile) \in {Null} \cup WrittenFor("setClaudeInstanceId", Null)
    /\ \A p \in Procs :
          /\ ret[p].op = "getCachedWorkspaceId"
                => ret[p].val \in {Null} \cup WrittenFor("setCachedWorkspaceId", ret[p].arg)
          /\ ret[p].op = "getCachedPeerId"
                => ret[p].val \in {Null} \cup WrittenFor("setCachedPeerId", ret[p].arg)
          /\ ret[p].op = "getCachedSessionId"
                => ret[p].val \in {Null} \cup WrittenFor("setCachedSessionId", ret[p].arg)
          /\ ret[p].op = "getClaudeInstanceId"
                => ret[p].val \in {Null} \cup WrittenFor("setClaudeInstanceId", Null)

\* a lost update: both peers were set, the file holds only one of them
C14_Witness ==
    /\ WrittenFor("setCachedPeerId", "user") = {"id1"}
    /\ WrittenFor("setCachedPeerId", "clawd") = {"id2"}
    /\ \A p \in Procs : pc[p] = "idle"
    /\ \E p \in Procs :
          /\ ret[p].op = "getCachedPeerId"
          /\ ret[p].arg = "user"
          /\ ret[p].val = Null
    /\ getCachedPeerId(idFile, "clawd") = "id2"

(***************************************************************************)
(* Claims about the work-log.                                               *)
(***************************************************************************)
HasHeader(text) == FindIndex(Split(text)) # -1

\* the lines with text after the first line with the marker
EntryLines(text) ==
    SelectSeq(SliceFrom(Split(text), FindIndex(Split(text)) + 1), Trimmed)

\* the descriptions of the entry lines
EntryDescs(text) == [i \in 1..Len(EntryLines(text)) |-> EntryLines(text)[i][1].s]

Min(a, b) == IF a < b THEN a ELSE b

\* C16: for every maxEntries >= 1, after any appendEntry call on a work-log
\* that contains the "## Recent Activity" header, the number of entry lines
\* under the header is at most maxEntries.
C16_EntryCountBounded ==
    (hist.work.descs # <<>> /\ HasHeader(workFile.content))
        => Len(EntryLines(workFile.content)) <= config.maxEntries

\* C17: after k appendEntry calls on an initially empty work-log with
\* maxEntries = N >= 2, the entries under the header are the last min(k, N)
\* appended descriptions, in the order of the calls.
C17_LastEntriesKept ==
    (hist.work.fromEmpty /\ config.maxEntries >= 2) =>
        LET k == Len(hist.work.descs)
        IN EntryDescs(workFile.content)
              = SubSeq(hist.work.descs, k - Min(k, config.maxEntries) + 1, k)

C17_Witness ==
    /\ hist.work.fromEmpty
    /\ config.maxEntries = 2
    /\ Len(hist.work.descs) = 4
    /\ hist.work.descs = <<"w2", "see ## Recent Activity", "w1", "w2">>
    /\ EntryDescs(workFile.content) = <<"w1", "w2">>

\* the description of the last appendClawdWork call
LastDesc == hist.work.descs[Len(hist.work.descs)]

\* C29: appendEntry on a non-empty work-log that does not contain the
\* "## Recent Activity" header appends the new entry after the existing
\* content without removing or altering any existing line, whatever maxEntries
\* is and however many entries the file already holds: the lines of the file
\* after the call are the lines before it, followed by the line of the entry.
C29_HeaderlessAppendKeepsLines ==
    (/\ hist.work.descs # <<>>
     /\ Len(hist.work.before) > 0
     /\ ~HasHeader(hist.work.before))
        => Split(workFile.content)
              = Append(Split(hist.work.before), <<EntryLine(now, LastDesc)>>)

\* a file without the header that holds three entries already is appended to
\* under maxEntries = 1, and holds four entries after the call
C29_Witness ==
    /\ config.maxEntries = 1
    /\ hist.work.descs = <<"w1", "w2">>
    /\ hist.work.before = EditedText \o <<NL, EntryLine(0, "w1")>>
    /\ ~HasHeader(hist.work.before)
    /\ workFile.content = EditedText \o <<NL, EntryLine(0, "w1"), NL, EntryLine(0, "w2")>>

\* the lines up to and including the first line with the marker
Preamble(text) == Slice(Split(text), 0, FindIndex(Split(text)) + 1)

\* C30: for any number of appendEntry calls, every line of the work-log up to
\* and including the first line containing "## Recent Activity" (the
\* preamble) is identical before and after each call, also when the call
\* trims old entries away.
C30_PreambleKept ==
    (hist.work.descs # <<>> /\ HasHeader(hist.work.before))
        => /\ HasHeader(workFile.content)
           /\ Preamble(workFile.content) = Preamble(hist.work.before)

\* the third call on the summary text under maxEntries = 2 drops the first
\* entry and leaves the eight lines of the preamble as they were
C30_Witness ==
    /\ config.maxEntries = 2
    /\ hist.work.descs = <<"w1", "w2", "w1">>
    /\ Preamble(hist.work.before) = Preamble(SummaryText)
    /\ Len(Preamble(SummaryText)) = 8
    /\ Preamble(workFile.content) = Preamble(SummaryText)
    /\ EntryDescs(hist.work.before) = <<"w1", "w2">>
    /\ EntryDescs(workFile.content) = <<"w2", "w1">>

(***************************************************************************)
(* Claims about failing file-system calls.                                  *)
(***************************************************************************)
\* C31: markUploaded never raises: any I/O failure (directory creation, read
\* or write) or parse failure during markUploaded, with or without a cwd
\* argument, is swallowed, and the call returns normally with the queue file
\* left in its prior state.
C31_MarkUploadedNeverRaises ==
    hist.io.failed # {} => (~hist.io.thrown /\ hist.io.after = hist.io.before)

(***************************************************************************)
(* Claims about the session start.                                          *)
(***************************************************************************)
\* C15: whichever remote calls of a handleSessionStart run fail, the run
\* writes its context block and exits with success, with the section of every
\* context call that returned a value in it.
C15_RemoteFailureNotFatal ==
    \A p \in Procs :
        ret[p].op = "handleSessionStart" =>
            /\ ret[p].val.exit = 0
            /\ "Honcho Memory System Active" \in ret[p].val.parts
            /\ \A c \in hist.hook[p].valued : SectionOf(c) \in ret[p].val.parts

\* C36: every handleSessionStart invocation that passes the configuration
\* check zeroes messageCount and lastRefreshMessageCount before it issues any
\* remote call (the calls are issued by the steps of a run that has started
\* and not exited), whatever the later remote calls do; hence after a session
\* start shouldRefreshDeepContext() is false until threshold further
\* increments (threshold >= 1).
C36_StartResetsCounters ==
    LET cache == loadContextCache(ctxFile)
        threshold == getMessageRefreshThreshold(config)
    IN /\ \A p \in Procs :
             pc[p] # "idle" => (MessageCount(cache) = 0 /\ LastRefreshMessageCount(cache) = 0)
       /\ (hist.stored.op = "handleSessionStart" /\ threshold >= 1 /\ hist.incs < threshold)
             => /\ ~shouldRefreshKnowledgeGraph(ctxFile, config)
                /\ \A p \in Procs :
                      ret[p].op = "shouldRefreshKnowledgeGraph" => ret[p].val = FALSE

\* a session start that found a count of 3 and a refresh marked at 3, whose
\* get-or-create of the workspace failed: one increment later the counters
\* are 1 and 0 and shouldRefreshDeepContext() has answered false
C36_Witness ==
    /\ hist.stored.op = "handleSessionStart"
    /\ hist.stored.before = MaxStartIncs
    /\ hist.hook["p1"].failed = {"workspaces.getOrCreate"}
    /\ hist.incs = 1
    /\ MessageCount(loadContextCache(ctxFile)) = 1
    /\ LastRefreshMessageCount(loadContextCache(ctxFile)) = 0
    /\ ret["p1"].op = "shouldRefreshKnowledgeGraph"
    /\ ret["p1"].val = FALSE

\* the get-or-create call for a key of a run
GetOrCreateOf(key) ==
    CASE key = "workspace" -> "workspaces.getOrCreate"
      [] key = "session" -> "sessions.getOrCreate"
      [] key = "user" -> "peers.getOrCreate(user)"
      [] key = "clawd" -> "peers.getOrCreate(clawd)"

\* C37: after one handleSessionStart run in which the get-or-create calls
\* succeeded, a second run with the same configuration and the same cwd (the
\* identity cache not cleared in between) issues no get-or-create call for
\* the workspace, the session or either peer: a run that exits with success
\* leaves all four keys cached, and a run issues a get-or-create call only
\* for a key that was a cache miss when it started.
C37_GetOrCreateOnlyOnMiss ==
    \A p \in Procs :
        /\ \A key \in RunKeys :
              GetOrCreateOf(key) \in hist.hook[p].calls => key \notin hist.hook[p].had
        /\ (ret[p].op = "handleSessionStart" /\ ret[p].val.exit = 0)
              => CachedKeys(idFile, config, ret[p].arg) = RunKeys

\* a run for a cwd whose four keys were cached when it started: it exits with
\* success after no get-or-create call, the session having been updated
C37_Witness ==
    \E p \in Procs :
        /\ ret[p].op = "handleSessionStart"
        /\ ret[p].val.exit = 0
        /\ hist.hook[p].had = RunKeys
        /\ "sessions.update" \in hist.hook[p].calls
        /\ hist.hook[p].calls \cap {GetOrCreateOf(key) : key \in RunKeys} = {}

\* a section of the context cache document, as a sequence (empty: it has none)
SectionIn(cache, key) == IF Has(cache, key) THEN <<cache[key]>> ELSE <<>>

\* C38: for every subset of the five parallel context calls of
\* handleSessionStart (user context, agent context, summaries, user dialectic,
\* agent dialectic) that fails, the handler still outputs the sections of the
\* calls that succeeded and exits with success, and the user / agent context
\* cache section is written if and only if the corresponding fetch succeeded
\* with a value: a failed fetch leaves that cache section unchanged.
C38_FetchFailuresTolerated ==
    [][\A p \in Procs :
          (pc[p] = "hook-fetch" /\ pc'[p] = "idle")
              => LET valued == hist'.hook[p].valued
                     before == loadContextCache(ctxFile)
                     after == loadContextCache(ctxFile')
                 IN /\ ret'[p].val.exit = 0
                    /\ \A c \in ContextCalls : SectionOf(c) \in ret'[p].val.parts <=> c \in valued
                    /\ hist'.hook[p].failed \cap valued = {}
                    /\ SectionIn(after, "userContext")
                          = IF "getContext(user)" \in valued
                            THEN <<[data |-> "d1", fetchedAt |-> now]>>
                            ELSE SectionIn(before, "userContext")
                    /\ SectionIn(after, "clawdContext")
                          = IF "getContext(clawd)" \in valued
                            THEN <<[data |-> "d2", fetchedAt |-> now]>>
                            ELSE SectionIn(before, "clawdContext")]_vars

\* a run whose user context call and user dialectic call failed, after an
\* earlier run had cached both contexts: it exits with success, its output
\* has the sections of the three other calls, the agent section of the cache
\* is of now and the user section is the one of the earlier run
C38_Witness ==
    \E p \in Procs :
        /\ ret[p].op = "handleSessionStart"
        /\ ret[p].val.exit = 0
        /\ hist.hook[p].failed = {"getContext(user)", "chat(user)"}
        /\ hist.hook[p].valued = {"getContext(clawd)", "summaries", "chat(clawd)"}
        /\ ret[p].val.parts \cap {SectionOf(c) : c \in ContextCalls}
              = {SectionOf(c) : c \in {"getContext(clawd)", "summaries", "chat(clawd)"}}
        /\ now = 2
        /\ SectionIn(loadContextCache(ctxFile), "clawdContext") = <<[data |-> "d2", fetchedAt |-> 2]>>
        /\ SectionIn(loadContextCache(ctxFile), "userContext") = <<[data |-> "d1", fetchedAt |-> 0]>>

\* C39: handleSessionStart never uses a cached session id or peer id that was
\* obtained under a different workspace than the currently configured one:
\* after the configured workspace name changes from A to B, the session and
\* peer ids that the next run holds for its remote calls were obtained (or
\* obtained again) for workspace B.
C39_IdsOfConfiguredWorkspace ==
    \A p \in Procs :
        pc[p] \in {"hook-peers", "hook-notify", "hook-fetch"}
            => /\ buf[p].workspaceId = config.workspace
               /\ <<buf[p].workspaceId, "session", buf[p].sessionId>> \in hist.remote
               /\ pc[p] # "hook-peers"
                     => /\ <<buf[p].workspaceId, "peer", buf[p].userPeerId>> \in hist.remote
                        /\ <<buf[p].workspaceId, "peer", buf[p].clawdPeerId>> \in hist.remote

(***************************************************************************)
(* Claims about the context formatting.                                     *)
(***************************************************************************)
\* the indices of the facts that are kept among the first n: fact n is kept
\* if and only if fewer than half of its keywords are keywords of the facts
\* kept before it
RECURSIVE KeptAmong(_, _)
KeptAmong(facts, n) ==
    IF n = 0 THEN {}
    ELSE LET before == KeptAmong(facts, n - 1)
             seen == UNION {Range(Keywords(facts[h])) : h \in before}
             words == Keywords(facts[n])
             known == Cardinality({j \in 1..Len(words) : words[j] \in seen})
         IN IF 2 * known < (IF Len(words) = 0 THEN 1 ELSE Len(words))
            THEN before \cup {n} ELSE before

\* the facts at the given indices, in input order
RECURSIVE Pick(_, _, _)
Pick(facts, indices, i) ==
    IF i > Len(facts) THEN <<>>
    ELSE (IF i \in indices THEN <<facts[i]>> ELSE <<>>) \o Pick(facts, indices, i + 1)

RECURSIVE IsSubsequence(_, _)
IsSubsequence(kept, facts) ==
    IF Len(kept) = 0 THEN TRUE
    ELSE IF Len(facts) = 0 THEN FALSE
    ELSE IF Head(kept) = Head(facts) THEN IsSubsequence(Tail(kept), Tail(facts))
    ELSE IsSubsequence(kept, Tail(facts))

\* C40: dedup is idempotent and order-preserving: for every list of facts L,
\* dedup(dedup(L)) = dedup(L), the result is a subsequence of L, and a
\* non-empty L always keeps its first fact.
C40_DedupIdempotent ==
    \A p \in Procs :
        ret[p].op = "deduplicateFacts"
            => /\ deduplicateFacts(ret[p].val) = ret[p].val
               /\ IsSubsequence(ret[p].val, ret[p].arg)
               /\ Len(ret[p].arg) > 0
                     => (Len(ret[p].val) > 0 /\ ret[p].val[1] = ret[p].arg[1])

\* three facts of which the second is dropped: the two kept facts are kept
\* again by a second pass
C40_Witness ==
    \E p \in Procs :
        /\ ret[p].op = "deduplicateFacts"
        /\ ret[p].arg = <<"the quick brown fox", "the quick brown dog",
                          "completely unrelated sentence">>
        /\ ret[p].val = <<"the quick brown fox", "completely unrelated sentence">>
        /\ deduplicateFacts(ret[p].val) = ret[p].val

\* the position of a tier in the order essential, extended, deep
TierRank(tier) == CHOOSE i \in 1..Len(Tiers) : Tiers[i] = tier

\* C19: for every context and fixed includeDialectic flag, the estimated
\* token count of the compressed output does not decrease from a tier to a
\* higher one: essential <= extended <= deep.
C19_TokensMonotoneInTier ==
    \A p \in Procs :
        ret[p].op = "formatCompressedContext"
            => \A i \in 1..Len(Tiers) :
                  LET other == formatCompressedContext(
                                   ret[p].arg.ctx, [ret[p].arg.config EXCEPT !.tier = Tiers[i]])
                  IN IF i <= TierRank(ret[p].arg.config.tier)
                     THEN estimateTokens(other) <= estimateTokens(ret[p].val)
                     ELSE estimateTokens(ret[p].val) <= estimateTokens(other)

\* a deep output that shows more facts, a longer summary and the dialectic
\* sections than the extended output of the same context
C19_Witness ==
    \E p \in Procs :
        /\ ret[p].op = "formatCompressedContext"
        /\ ret[p].arg.config = [tier |-> "deep", includeDialectic |-> TRUE]
        /\ HasLength(ret[p].arg.ctx.user, "dialectic")
        /\ HasLength(Opt(ret[p].arg.ctx.user, "context"), "explicit")
        /\ Len(ret[p].arg.ctx.user.context.explicit) = MaxItems
        /\ HasLength(Opt(ret[p].arg.ctx.session, "context"), "shortSummary")
        /\ Len(ret[p].arg.ctx.session.context.shortSummary) = MaxSummaryChars
        /\ estimateTokens(formatCompressedContext(ret[p].arg.ctx,
                                                   [tier |-> "essential", includeDialectic |-> TRUE]))
              < estimateTokens(formatCompressedContext(ret[p].arg.ctx,
                                                       [tier |-> "extended", includeDialectic |-> TRUE]))
        /\ estimateTokens(formatCompressedContext(ret[p].arg.ctx,
                                                   [tier |-> "extended", includeDialectic |-> TRUE]))
              < estimateTokens(ret[p].val)

\* the context has none of the three kinds of content
NoContent(context) ==
    \/ ~Defined(context)
    \/ \A key \in {"explicit", "deductive", "peerCard"} :
          ~Has(context, key) \/ Len(context[key]) = 0

\* C20: formatPromptContext(name, context) returns exactly the empty string
\* if and only if the context is undefined or has no explicit facts, no
\* deductive insights and no profile lines; otherwise it returns a non-empty
\* string that begins with the marker [Honcho/name].
C20_PromptEmptyIffNoContent ==
    \A p \in Procs :
        ret[p].op = "formatPromptContext"
            => LET marker == "[Honcho/" \o ret[p].arg.peerName \o "]"
               IN /\ (ret[p].val = "") <=> NoContent(ret[p].arg.context)
                  /\ ret[p].val # ""
                        => /\ Len(ret[p].val) >= Len(marker)
                           /\ SubSeq(ret[p].val, 1, Len(marker)) = marker

\* the empty string for a context whose three arrays are present and empty
C20_Witness ==
    /\ ret["p1"].op = "formatPromptContext"
    /\ ret["p1"].arg = [peerName |-> "user", context |-> OptArrays(0, 0, 0)]
    /\ ret["p1"].val = ""

\* the text has the pattern at position i
TextAt(text, i, pattern) ==
    /\ i >= 1
    /\ i + Len(pattern) - 1 <= Len(text)
    /\ SubSeq(text, i, i + Len(pattern) - 1) = pattern

\* the position after the first occurrence of the pattern (0: none)
After(text, pattern) ==
    IF \E i \in 1..Len(text) : TextAt(text, i, pattern)
    THEN (CHOOSE i \in 1..Len(text) :
              TextAt(text, i, pattern) /\ \A h \in 1..(i - 1) : ~TextAt(text, h, pattern))
         + Len(pattern)
    ELSE 0

\* C21: for every context and tier the compressed output begins with the
\* [honcho-memory] marker and ends with the [end-memory] marker; when the user
\* has no facts, no insights and no profile, the user marker line is followed
\* at once by the agent marker line: no facts:, insights: or profile: line
\* lies between them.
C21_MarkersAlwaysSectionOmitted ==
    \A p \in Procs :
        ret[p].op = "formatCompressedContext"
            => LET out == ret[p].val
                   ctx == ret[p].arg.ctx
               IN /\ TextAt(out, 1, "[honcho-memory]\n")
                  /\ TextAt(out, Len(out) - Len("\n[end-memory]") + 1, "\n[end-memory]")
                  /\ NoContent(Opt(ctx.user, "context"))
                        => LET from == After(out, "\n[" \o ctx.user.name \o "]\n")
                           IN /\ from > 0
                              /\ TextAt(out, from, "[" \o ctx.ai.name \o "]\n")

\* a context whose user arrays are present and empty, formatted while its
\* agent has facts
C21_Witness ==
    \E p \in Procs :
        /\ ret[p].op = "formatCompressedContext"
        /\ Has(ret[p].arg.ctx.user, "context")
        /\ Has(ret[p].arg.ctx.user.context, "explicit")
        /\ Len(ret[p].arg.ctx.user.context.explicit) = 0
        /\ NoContent(ret[p].arg.ctx.user.context)
        /\ HasLength(Opt(ret[p].arg.ctx.ai, "context"), "explicit")
        /\ After(ret[p].val, "\n[user]\n[clawd]\nrecent: ") > 0

\* the text occurs in the output
Occurs(out, text) == After(out, text) > 0

\* C32: in compressed output the user dialectic and the agent self-reflection
\* text appear if and only if the tier is deep, includeDialectic is set and
\* the respective text is non-empty; at the essential and extended tiers they
\* never appear (neither the text nor the heading of its section).
C32_DialecticOnlyDeepAndAsked ==
    \A p \in Procs :
        ret[p].op = "formatCompressedContext"
            => LET out == ret[p].val
                   ctx == ret[p].arg.ctx
                   cfg == ret[p].arg.config
                   asked == cfg.tier = "deep" /\ Has(cfg, "includeDialectic") /\ cfg.includeDialectic
               IN /\ (\/ Occurs(out, "/ai-understanding]")
                      \/ Occurs(out, "asks for tests first"))
                        <=> (asked /\ HasLength(ctx.user, "dialectic"))
                  /\ (\/ Occurs(out, "/self-reflection]")
                      \/ Occurs(out, "prefers small diffs"))
                        <=> (asked /\ HasLength(ctx.ai, "dialectic"))

\* a deep output asked to include the dialectic: the user's text is shown
\* under its heading, the agent's text is empty and has no section
C32_Witness ==
    \E p \in Procs :
        /\ ret[p].op = "formatCompressedContext"
        /\ ret[p].arg.config = [tier |-> "deep", includeDialectic |-> TRUE]
        /\ HasLength(ret[p].arg.ctx.user, "dialectic")
        /\ Has(ret[p].arg.ctx.ai, "dialectic")
        /\ ret[p].arg.ctx.ai.dialectic = ""
        /\ Occurs(ret[p].val, "\n[user/ai-understanding]\nasks for tests first\n[end-memory]")
        /\ ~Occurs(ret[p].val, "/self-reflection]")

\* the items of a context: its facts, insights, profile lines, changes, session
\* summary and dialectic texts
ItemsOf(ctx) ==
    LET user == Opt(ctx.user, "context")
        ai == Opt(ctx.ai, "context")
        session == Opt(ctx.session, "context")
        texts(holder, key, field) ==
            IF HasLength(holder, key)
            THEN {IF field = "" THEN holder[key][i] ELSE holder[key][i][field] :
                      i \in 1..Len(holder[key])}
            ELSE {}
        text(holder, key) == IF HasLength(holder, key) THEN {holder[key]} ELSE {}
    IN texts(user, "explicit", "content") \cup texts(user, "deductive", "conclusion")
       \cup texts(user, "peerCard", "") \cup texts(ai, "explicit", "content")
       \cup texts(ctx, "changes", "") \cup text(session, "shortSummary")
       \cup text(ctx.user, "dialectic") \cup text(ctx.ai, "dialectic")

\* C33: for every FullContext and every configuration the compressed and the
\* verbose renderer select the same information: each item (a fact, an
\* insight, a profile line, a change, the session summary text, a dialectic
\* text) is in the compressed output if and only if it is in the verbose
\* output for the same tier and includeDialectic flag.
C33_RenderersSelectSame ==
    \A p \in Procs :
        ret[p].op \in {"formatCompressedContext", "formatVerboseContext"}
            => \A item \in ItemsOf(ret[p].arg.ctx) :
                  Occurs(formatCompressedContext(ret[p].arg.ctx, ret[p].arg.config), item)
                      <=> Occurs(formatVerboseContext(ret[p].arg.ctx, ret[p].arg.config), item)

\* n is the least integer that is at least length / 4
IsCeilOfQuarter(n, length) == 4 * n >= length /\ 4 * (n - 1) < length

\* C34: for every text and every maxTokens >= 1, truncateToTokens returns the
\* text unchanged when its length is at most 4 * maxTokens, and otherwise a
\* string of length exactly 4 * maxTokens that ends with "..." and starts with
\* a prefix of the text; in both cases estimateTokens(result) <= maxTokens,
\* where estimateTokens(t) is the ceiling of length(t) / 4.
C34_TruncateWithinBudget ==
    \A p \in Procs :
        ret[p].op = "truncateToTokens"
            => LET text == ret[p].arg.text
                   maxTokens == ret[p].arg.maxTokens
                   out == ret[p].val
               IN /\ IF Len(text) <= 4 * maxTokens
                     THEN out = text
                     ELSE /\ Len(out) = 4 * maxTokens
                          /\ out = SubSeq(text, 1, Len(out) - 3) \o "..."
                  /\ estimateTokens(out) <= maxTokens
                  /\ IsCeilOfQuarter(estimateTokens(out), Len(out))
                  /\ IsCeilOfQuarter(estimateTokens(text), Len(text))

\* a text of 17 characters cut to 2 tokens: 5 characters of it and the dots
C34_Witness ==
    \E p \in Procs :
        /\ ret[p].op = "truncateToTokens"
        /\ ret[p].arg = [text |-> "abcdefghijklmnopq", maxTokens |-> 2]
        /\ ret[p].val = "abcde..."
        /\ estimateTokens(ret[p].val) = 2

\* the rest of the first line of the output that begins with the label ("":
\* there is none)
LineOf(out, label) ==
    LET from == After(out, "\n" \o label)
        rest == SubSeq(out, from, Len(out))
    IN IF from = 0 THEN "" ELSE SubSeq(rest, 1, After(rest, "\n") - 2)

\* the texts under key of the first min(n, max) items of holder[field], joined
FirstJoined(holder, field, key, max) ==
    IF HasLength(holder, field)
    THEN JoinWith(Field(SubSeq(holder[field], 1, Min(Len(holder[field]), max)), key), "; ")
    ELSE ""

\* facts, insights, agent facts, local work characters and summary tokens
Budgets ==
    [essential |-> <<3, 2, 3, 100, 50>>, extended |-> <<8, 5, 8, 200, 150>>,
     deep |-> <<15, 10, 15, 400, 400>>]

\* C35: in compressed output for tier T the included user facts are the first
\* min(n, budget.user.facts) of the input in input order, the insights the
\* first min(n, budget.user.insights), the agent facts the first
\* min(n, budget.ai.facts), the local work text at most budget.ai.work
\* characters (a prefix of the input) and the session summary at most
\* budget.session.summary tokens, with budgets (3,2,3,100,50), (8,5,8,200,150),
\* (15,10,15,400,400) for essential, extended, deep.
C35_BudgetsAtInclusion ==
    \A p \in Procs :
        ret[p].op = "formatCompressedContext"
            => LET out == ret[p].val
                   ctx == ret[p].arg.ctx
                   budget == Budgets[ret[p].arg.config.tier]
                   work == LineOf(out, "local: ")
               IN /\ LineOf(out, "facts: ")
                        = FirstJoined(Opt(ctx.user, "context"), "explicit", "content", budget[1])
                  /\ LineOf(out, "insights: ")
                        = FirstJoined(Opt(ctx.user, "context"), "deductive", "conclusion", budget[2])
                  /\ LineOf(out, "recent: ")
                        = FirstJoined(Opt(ctx.ai, "context"), "explicit", "content", budget[3])
                  /\ Len(work) <= budget[4]
                  /\ work # "" => work = SubSeq(ctx.ai.localWork, 1, Len(work))
                  /\ estimateTokens(LineOf(out, "summary: ")) <= budget[5]

\* a deep output of a context with 16 user facts, 11 insights, 16 agent facts,
\* 401 characters of local work and a summary of 1601 characters: 15, 10 and
\* 15 items, 400 characters and 400 tokens of them are shown
C35_Witness ==
    \E p \in Procs :
        /\ ret[p].op = "formatCompressedContext"
        /\ ret[p].arg.config.tier = "deep"
        /\ HasLength(Opt(ret[p].arg.ctx.user, "context"), "explicit")
        /\ Len(ret[p].arg.ctx.user.context.explicit) = MaxItems
        /\ Len(ret[p].arg.ctx.user.context.deductive) = 11
        /\ HasLength(Opt(ret[p].arg.ctx.ai, "context"), "explicit")
        /\ Len(ret[p].arg.ctx.ai.context.explicit) = MaxItems
        /\ HasLength(ret[p].arg.ctx.ai, "localWork")
        /\ Len(ret[p].arg.ctx.ai.localWork) = MaxWorkChars
        /\ HasLength(Opt(ret[p].arg.ctx.session, "context"), "shortSummary")
        /\ Len(ret[p].arg.ctx.session.context.shortSummary) = MaxSummaryChars
        /\ LineOf(ret[p].val, "facts: ")
              = JoinWith([i \in 1..15 |-> "item " \o ToString(i)], "; ")
        /\ LineOf(ret[p].val, "insights: ")
              = JoinWith([i \in 1..10 |-> "item " \o ToString(i)], "; ")
        /\ Len(LineOf(ret[p].val, "local: ")) = 400
        /\ Len(LineOf(ret[p].val, "summary: ")) = 1600

\* the instance id stored in the identity cache (Null: none)
StoredInstanceId(file) ==
    LET cache == loadIdCache(file)
    IN IF Has(cache, "claudeInstanceId") /\ cache.claudeInstanceId # ""
       THEN cache.claudeInstanceId ELSE Null

\* the line a step has appended to the queue file
AppendedLine == SubSeq(queueFile'.content, Len(queueFile.content) + 1, Len(queueFile'.content) - 1)

\* C22: queueMessage(content, peerId, cwd, instanceId?) appends exactly one
\* line, with uploaded = false; the line's instanceId is the given instanceId
\* when one is given, otherwise the instance id stored in the identity cache,
\* and the field is absent when there is neither (an id is a non-empty string).
C22_EnqueueInstanceId ==
    [][hist'.appends = hist.appends + 1
          => /\ queueFile'.exists
             /\ Len(queueFile'.content) >= Len(queueFile.content) + 2
             /\ SubSeq(queueFile'.content, 1, Len(queueFile.content)) = queueFile.content
             /\ queueFile'.content[Len(queueFile'.content)] = NL
             /\ \A i \in 1..Len(AppendedLine) : AppendedLine[i] # NL
             /\ WellFormed(AppendedLine)
             /\ LET msg == MsgParse(AppendedLine)
                    given == hist'.given
                    stored == StoredInstanceId(idFile)
                IN /\ Has(msg, "uploaded") /\ msg.uploaded = FALSE
                   /\ IF given \notin {Null, ""}
                      THEN Has(msg, "instanceId") /\ msg.instanceId = given
                      ELSE IF stored # Null
                      THEN Has(msg, "instanceId") /\ msg.instanceId = stored
                      ELSE ~Has(msg, "instanceId")]_vars

\* three messages in the queue: one with the given id while another id is
\* stored, one with the stored id, one without the field
C22_Witness ==
    /\ hist.appends = 3
    /\ StoredInstanceId(idFile) = "i2"
    /\ hist.given = Null
    /\ LET msgs == getQueuedMessages(queueFile, Null)
       IN /\ Len(msgs) = 3
          /\ ~Has(msgs[1], "instanceId")
          /\ Has(msgs[2], "instanceId") /\ msgs[2].instanceId = "i1"
          /\ Has(msgs[3], "instanceId") /\ msgs[3].instanceId = "i2"

\* C23: with two parallel sessions that each ran session start (storing its
\* own instance id) and then queue messages without an instanceId, every
\* queued message carries the instance id of the session that produced it.
C23_MessagesCarryOwnInstance ==
    \A p \in Procs :
        LET msgs == getQueuedMessages(queueFile, SessionOf(p).cwd)
        IN \A i \in 1..Len(msgs) :
              Has(msgs[i], "instanceId") /\ msgs[i].instanceId = SessionOf(p).session_id

\* the user-context section exists and is younger than the time-to-live
UserSectionLive ==
    /\ hist.userSet.set
    /\ now - hist.userSet.at < (IF config = EmptyDoc THEN 300000 ELSE config.ttlSeconds * 1000)

\* C24: isStale() and getUserContext() use the same boundary: at any instant
\* isStale() is false if and only if a user-context section exists and
\* now - fetchedAt < TTL, which is exactly when getUserContext() returns the
\* stored section.
C24_StaleIffGetMisses ==
    /\ isContextCacheStale(ctxFile, now, config) = ~UserSectionLive
    /\ ~isContextCacheStale(ctxFile, now, config)
          <=> (hist.userSet.set
                  /\ getCachedUserContext(ctxFile, now, config) = hist.userSet.data)
    /\ isContextCacheStale(ctxFile, now, config)
          <=> getCachedUserContext(ctxFile, now, config) = Null
    /\ \A p \in Procs :
          /\ ret[p].op = "isContextCacheStale" => ret[p].val = ~UserSectionLive
          /\ ret[p].op = "getCachedUserContext"
                => (ret[p].val = Null) = isContextCacheStale(ctxFile, now, config)

\* isStale() answers true exactly one time-to-live after the set, where
\* getUserContext() misses
C24_Witness ==
    /\ config = EmptyDoc
    /\ hist.userSet.set
    /\ now - hist.userSet.at = 300000
    /\ \E p \in Procs : ret[p].op = "isContextCacheStale" /\ ret[p].val = TRUE
    /\ getCachedUserContext(ctxFile, now, config) = Null

\* C25: markRefreshed() sets lastRefreshMessageCount to the current
\* messageCount and leaves messageCount unchanged; with a threshold of at
\* least 1, shouldRefreshDeepContext() is false right after it and is true
\* again exactly from the threshold-th further incrementMessageCount() on.
C25_MarkThenThresholdMore ==
    hist.mark.set =>
        LET cache == loadContextCache(ctxFile)
            threshold == IF config = EmptyDoc THEN 50 ELSE config.messageThreshold
        IN /\ LastRefreshMessageCount(cache) = hist.mark.count
           /\ MessageCount(cache) = hist.mark.count + hist.mark.incs
           /\ threshold >= 1
                 => /\ shouldRefreshKnowledgeGraph(ctxFile, config) = (hist.mark.incs >= threshold)
                    /\ \A p \in Procs :
                          ret[p].op = "shouldRefreshKnowledgeGraph"
                              => ret[p].val = (hist.mark.incs >= threshold)

\* markRefreshed() at a count of 1, then the 50th further increment, after
\* which shouldRefreshDeepContext() has answered true
C25_Witness ==
    /\ config = EmptyDoc
    /\ hist.mark.set
    /\ hist.mark.count = 1
    /\ hist.mark.incs = 50
    /\ \E p \in Procs : ret[p].op = "shouldRefreshKnowledgeGraph" /\ ret[p].val = TRUE

\* C26: incrementMessageCount() returns the value it stores, the count it
\* read plus one; N calls made by concurrent processes from a stored count c
\* (no reset in between) end at a stored count between c+1 and c+N, and each
\* call returns a value in that range.
C26_ConcurrentIncrementsInRange ==
    LET low == hist.batch.c + 1
        high == hist.batch.c + hist.batch.n
    IN /\ \A val \in hist.batch.returned : low <= val /\ val <= high
       /\ (hist.batch.n >= 1 /\ \A p \in Procs : Idle(p))
             => /\ low <= MessageCount(loadContextCache(ctxFile))
                /\ MessageCount(loadContextCache(ctxFile)) <= high

\* C27: between two resetMessageCount() calls the stored messageCount never
\* decreases, whatever the interleaving of the context-cache operations of
\* concurrent processes: the write of a call other than resetMessageCount
\* leaves a count that is not below the count the write before it left.
C27_CountNeverRolledBack ==
    hist.stored.op \notin {"none", "resetMessageCount"}
        => hist.stored.count >= hist.stored.before

\* a field of a document, if it has it
Part(doc, key) == IF Has(doc, key) THEN <<doc[key]>> ELSE <<>>
\* the entries of a mapping of a document other than the entry of a key
Entries(doc, field, key) ==
    IF Has(doc, field)
    THEN {<<k, doc[field][k]>> : k \in DOMAIN doc[field] \ {key}} ELSE {}

\* the fields of the two caches that a call is not about
Foreign(op, key, id, ctx) ==
    [workspace |-> IF op = "setCachedWorkspaceId" THEN <<>> ELSE Part(id, "workspace"),
     peers |-> Entries(id, "peers", IF op = "setCachedPeerId" THEN key ELSE Null),
     sessions |-> Entries(id, "sessions", IF op = "setCachedSessionId" THEN key ELSE Null),
     instance |-> IF op = "setClaudeInstanceId" THEN <<>> ELSE Part(id, "claudeInstanceId"),
     user |-> IF op = "setCachedUserContext" THEN <<>> ELSE Part(ctx, "userContext"),
     clawd |-> IF op = "setCachedClawdContext" THEN <<>> ELSE Part(ctx, "clawdContext"),
     summaries |-> Part(ctx, "summaries"),
     count |-> IF op \in {"incrementMessageCount", "resetMessageCount"} THEN <<>>
               ELSE Part(ctx, "messageCount"),
     last |-> IF op \in {"markKnowledgeGraphRefreshed", "resetMessageCount"} THEN <<>>
              ELSE Part(ctx, "lastRefreshMessageCount")]

\* C28: run alone, every setter changes only its own field: setPeerId(p, id)
\* leaves the workspace, all sessions, all other peers and the instance id
\* as they were (likewise the three other identity setters), setUserContext
\* leaves the agent section, the summaries and both counters as they were
\* (likewise setAgentContext), and the counter operations leave the context
\* sections as they were; no call changes the other cache.
C28_SettersChangeOwnFieldOnly ==
    hist.frame.op # "none"
        => Foreign(hist.frame.op, hist.frame.key,
                   loadIdCache(idFile), loadContextCache(ctxFile))
              = Foreign(hist.frame.op, hist.frame.key,
                        loadIdCache(hist.frame.id), loadContextCache(hist.frame.ctx))

\* setUserContext on the full context cache, beside the full identity cache
C28_Witness ==
    /\ hist.frame.op = "setCachedUserContext"
    /\ loadContextCache(hist.frame.ctx) = FullCtxDoc
    /\ loadIdCache(idFile) = FullIdDoc
    /\ loadContextCache(ctxFile).userContext = [data |-> "d2", fetchedAt |-> 1]
    /\ loadContextCache(ctxFile).messageCount = 3

====
